---- MODULE Spec2Model ----
(***************************************************************************)
(* Verification model of hms-nut's MQTT client wrapper                     *)
(* (src/src/mqtt/MqttClient.cpp): the connection state and its recursive   *)
(* mutex, the handler registry and its mutex, the public operations        *)
(* connect / disconnect / isConnected / subscribe / unsubscribe / publish  *)
(* executed step by step on several threads, and the Paho callback thread  *)
(* that runs onMessageArrived and onConnectionLost.                        *)
(*                                                                         *)
(* Strings are sequences of one-character strings, so that splitting a     *)
(* topic at '/' is computed the way std::getline computes it.              *)
(***************************************************************************)
EXTENDS Naturals, Integers, Sequences, FiniteSets, TLC

(***************************************************************************)
(* Bounds of the model                                                     *)
(***************************************************************************)
\* number of calls the application threads make in one behaviour
MaxCalls == 2
\* number of messages the broker delivers in one behaviour
MaxMsgs == 1
\* number of times the connection drops in one behaviour
MaxDrops == 1
\* number of async_client objects connect() creates in one behaviour
MaxClients == 2

(***************************************************************************)
(* Threads, topics, patterns, handlers                                     *)
(***************************************************************************)
AppThreads == {"t1", "t2"}
\* Paho's callback thread: runs onMessageArrived and onConnectionLost
CbThread == "cb"
Threads == AppThreads \cup {CbThread}
NoThread == "none"

P_plus == <<"a", "/", "+", "/", "c">>
P_hash == <<"a", "/", "#">>
Patterns == {P_plus, P_hash}

T_abc == <<"a", "/", "b", "/", "c">>
T_abcd == <<"a", "/", "b", "/", "c", "/", "d">>
T_b == <<"b">>
Topics == {T_abc, T_abcd, T_b}
\* topics the application and the callbacks publish to
PubTopics == {T_abc}
NoTopic == <<>>

\* The callbacks the application registers.  A MessageCallback is an opaque
\* std::function: what it does when it is invoked (return, throw, call back
\* into the client) is chosen at each invocation.
Handlers == {"h1", "h2"}
NoHandler == "nohandler"

(***************************************************************************)
(* std::string helpers                                                     *)
(***************************************************************************)
\* ASCII codes, for std::map<std::string, ...> iteration order
CharCode(c) ==
    CASE c = "#" -> 35
      [] c = "+" -> 43
      [] c = "/" -> 47
      [] c = "1" -> 49
      [] c = "2" -> 50
      [] c = "a" -> 97
      [] c = "b" -> 98
      [] c = "c" -> 99
      [] c = "d" -> 100
      [] OTHER -> 0

RECURSIVE StrLess(_, _)
\* std::less<std::string>: lexicographic on character codes
StrLess(s, t) ==
    IF t = <<>> THEN FALSE
    ELSE IF s = <<>> THEN TRUE
    ELSE IF CharCode(Head(s)) < CharCode(Head(t)) THEN TRUE
    ELSE IF CharCode(Head(s)) > CharCode(Head(t)) THEN FALSE
    ELSE StrLess(Tail(s), Tail(t))

\* first key of a non-empty set of strings in std::map order
MinKey(S) == CHOOSE s \in S : \A u \in S \ {s} : StrLess(s, u)

RECURSIVE SplitAll(_, _, _)
\* every '/'-delimited segment of str, the last one included even if empty
SplitAll(str, cur, acc) ==
    IF str = <<>> THEN Append(acc, cur)
    ELSE IF Head(str) = "/" THEN SplitAll(Tail(str), <<>>, Append(acc, cur))
    ELSE SplitAll(Tail(str), Append(cur, Head(str)), acc)

\* the split lambda of topicMatches: std::getline in a while loop yields no
\* part once the stream is at end of input, so an empty string has no parts
\* and one trailing empty segment is not produced
split(str) ==
    LET all == SplitAll(str, <<>>, <<>>)
    IN IF all[Len(all)] = <<>> THEN SubSeq(all, 1, Len(all) - 1) ELSE all

topicMatches(topic, pattern) ==
    LET topic_parts == split(topic)
        pattern_parts == split(pattern)
        has_multilevel == pattern_parts /= <<>>
                          /\ pattern_parts[Len(pattern_parts)] = <<"#">>
        pparts == IF has_multilevel
                  THEN SubSeq(pattern_parts, 1, Len(pattern_parts) - 1)
                  ELSE pattern_parts
        sizes_ok == IF has_multilevel
                    THEN ~(Len(topic_parts) < Len(pattern_parts) - 1)
                    ELSE Len(topic_parts) = Len(pattern_parts)
    IN sizes_ok
       /\ \A i \in 1..Len(pparts) :
              pparts[i] = <<"+">> \/ pparts[i] = topic_parts[i]

(***************************************************************************)
(* State                                                                   *)
(***************************************************************************)
VARIABLES
    client_,            \* std::unique_ptr<mqtt::async_client>: 0 is null, n the n-th client created
    connected_,         \* the connected flag
    message_callbacks_, \* std::map<std::string, MessageCallback>
    connection_mutex_,  \* thread that owns connection_mutex_, or NoThread
    callbacks_mutex_,   \* thread that owns callbacks_mutex_, or NoThread
    pc,                 \* where each thread is
    op,                 \* the operation each thread is (or was last) executing
    arg_topic,          \* its topic / pattern argument
    arg_callback,       \* its callback argument
    client_ptr,         \* the raw pointer local of subscribe()
    ret,                \* what the operation returned
    waitTok,            \* state of the token the thread waits on with ->wait()
    transportUp,        \* async_client::is_connected()
    sessionBy,          \* how the transport's current session was established
    reconnecting,       \* Paho's automatic reconnect is retrying
    pendingSub,         \* SUBSCRIBE requests sent, SUBACK not yet received
    outbox,             \* PUBLISH messages handed to the transport, not yet acknowledged
    lostPending,        \* a connection-lost callback waits for the callback thread
    dispMsg,            \* the message onMessageArrived is dispatching
    todo,               \* registry keys the dispatch loop has not visited yet
    cur_key,            \* registry key whose callback is running
    invoked,            \* callbacks entered for dispMsg, in order, and how each ended
    settled,            \* registry keys no subscribe() was working on when dispMsg arrived
    calls,              \* application calls made so far
    msgs,               \* messages delivered so far
    drops,              \* connection drops so far
    m_topic,            \* topicMatches: the topic argument
    m_pattern,          \* topicMatches: the pattern argument
    m_result,           \* topicMatches: the value returned, "none" before the call
    running_,           \* CollectorService: std::atomic<bool> running_
    save_interval_seconds_, \* CollectorService: the configured save interval
    device_data_,       \* CollectorService: std::map<std::string, UpsData>
    last_save_times_,   \* CollectorService: std::map<std::string, time_point>
    last_save_time_,    \* CollectorService: time of the last successful save of any device
    data_mutex_,        \* CollectorService: owner of data_mutex_, or NoThread
    clock,              \* std::chrono::system_clock::now(), in seconds
    s_pc,               \* where the saver thread (scheduledSaveLoop) is
    s_now,              \* scheduledSaveLoop: the local now of the current tick
    s_todo,             \* scheduledSaveLoop: devices the tick has not visited yet
    c_pc,               \* where the thread calling start() / stop() is
    c_todo,             \* stop(): devices the shutdown flush has not visited yet
    sink,               \* DatabaseService::insertUpsMetrics invocations, in order
    c_started,          \* main() has called start()
    updates,            \* messages handed to onMqttMessage so far
    u_record,           \* updateFieldFromMqtt: the UpsData it is called on
    u_sensor_name,      \* updateFieldFromMqtt: the sensor_name of the last call
    u_value,            \* updateFieldFromMqtt: the value of the last call
    u_now,              \* updateFieldFromMqtt: system_clock::now() at the last call
    mqtt_to_db_map_,    \* DeviceMapper::mqtt_to_db_map_
    h_topic,            \* onMqttMessage on its own: the levels of the topic of the last call
    db_to_mqtt_map_,    \* DeviceMapper::db_to_mqtt_map_
    friendly_names_,    \* DeviceMapper::friendly_names_
    device_ids_,        \* DeviceMapper::device_ids_
    initialized_,       \* DeviceMapper::initialized_
    mapper_calls,       \* calls of initialize() and addDevice() so far
    n_vars,             \* fromNutVariables on its own: the variables read from the NUT server
    n_data,             \* fromNutVariables on its own: the UpsData it returned
    n_messages,         \* toMqttMessages on its own: the messages it returned, "none" before the call
    bridge_running_,    \* NutBridgeService: std::atomic<bool> running_
    discovery_published_, \* NutBridgeService: discovery_published_
    nut_connected_,     \* NutClient: connected_
    ups_conn_,          \* NutClient: UPSCONN_t* ups_conn_, 0 is nullptr
    nut_live,           \* UPSCONN_t objects allocated with new and not deleted
    nr_pc,              \* NutClient on its own: where a call of reconnect() is
    lk,                 \* the locks on their own: the thread that owns each mutex
    l_todo,             \* the locks on their own: the lock operations each thread has left in its call
    l_running,          \* the locks on their own: CollectorService::running_
    reconnect_attempts_, \* NutClient: int reconnect_attempts_
    backoff_sec,        \* NutClient::connect: the backoff_sec last slept, "none" before the first
    w_pc,               \* where the bridge's worker thread (runLoop) is
    w_vars,             \* pollAndPublish: the local variables
    w_data,             \* pollAndPublish: the local ups_data
    w_todo,             \* pollAndPublish: the mqtt_messages not yet handed to publish
    w_all_success,      \* pollAndPublish: the local all_success
    cycle_pub,          \* what the worker has published since the current pass of the loop began
    cycle_end,          \* how the last pass of the loop ended, "none" while one is under way
    bridge_mutex_,      \* NutBridgeService: mutex_, the thread that holds it
    last_poll_time_,    \* NutBridgeService: last_poll_time_, 0 as constructed, 1 once set to now()
    b_pc,               \* where the thread calling the bridge's start() / stop() is
    r_ret,              \* republishDiscovery: what the last call returned
    r_calls,            \* republishDiscovery: calls made so far
    disc_epoch,         \* the drops the connection had seen when discovery was last published
    bus_back            \* as the current pass began: the drops seen, if the connection had come
                        \* back from a drop and discovery had not been published since

\* the connection state, the locks, the threads and the transport of the
\* MQTT client
mqttVars == <<client_, connected_, message_callbacks_, connection_mutex_,
          callbacks_mutex_, pc, op, arg_topic, arg_callback, client_ptr, ret, waitTok,
          transportUp, sessionBy, reconnecting, pendingSub, outbox,
          lostPending, dispMsg, todo, cur_key, invoked, settled, calls, msgs,
          drops>>

\* topicMatches running on its own: its arguments and its result
matchVars == <<m_topic, m_pattern, m_result>>

\* the state of everything but the MQTT client
\* the collector: its buffer, its saver thread, the thread that starts and
\* stops it, the clock and the storage sink
collectorVars == <<running_, save_interval_seconds_, device_data_, last_save_times_,
                   last_save_time_, data_mutex_, clock, s_pc, s_now, s_todo, c_pc,
                   c_todo, sink, c_started, updates>>

\* updateFieldFromMqtt running on its own: the record and the last arguments
updateVars == <<u_record, u_sensor_name, u_value, u_now>>

\* the device registry, and the topic of the message the collector's
\* handler was last called with when it runs on its own
mapperVars == <<db_to_mqtt_map_, friendly_names_, device_ids_, initialized_, mapper_calls>>
handlerVars == <<mqtt_to_db_map_, h_topic, mapperVars>>

\* fromNutVariables and toMqttMessages running on their own
convVars == <<n_vars, n_data, n_messages>>

\* the NUT bridge: its flags, the NUT client it owns, its worker thread, the
\* thread that starts and stops it, and the manual republish operation
nutVars == <<nut_connected_, ups_conn_, nut_live, reconnect_attempts_, backoff_sec>>
pollVars == <<w_vars, w_data, w_todo, w_all_success>>
cycleVars == <<cycle_pub, cycle_end, bus_back>>
republishVars == <<r_ret, r_calls>>
stampVars == <<bridge_mutex_, last_poll_time_>>

\* the locks of the collector's process running on their own
orderVars == <<lk, l_todo, l_running>>
bridgeVars == <<bridge_running_, discovery_published_, disc_epoch, nutVars, w_pc,
                pollVars, cycleVars, b_pc, republishVars, stampVars>>

otherVars == <<matchVars, collectorVars, updateVars, handlerVars, convVars, bridgeVars, nr_pc,
    orderVars>>

\* what the steps of one component leave alone
matchRest == <<mqttVars, collectorVars, updateVars, handlerVars, convVars, bridgeVars, nr_pc,
    orderVars>>
collectorRest == <<mqttVars, matchVars, updateVars, handlerVars, convVars, bridgeVars, nr_pc,
    orderVars>>
updateRest == <<mqttVars, matchVars, collectorVars, handlerVars, convVars, bridgeVars, nr_pc,
    orderVars>>
convRest == <<mqttVars, matchVars, collectorVars, updateVars, handlerVars, bridgeVars, nr_pc,
    orderVars>>
bridgeRest == <<matchVars, collectorVars, updateVars, handlerVars, convVars, nr_pc,
    orderVars>>
nutRest == <<matchVars, collectorVars, updateVars, handlerVars, convVars, orderVars>>

vars == <<mqttVars, otherVars>>

clientVars == <<client_, connected_, message_callbacks_>>
lockVars == <<connection_mutex_, callbacks_mutex_>>
transportVars == <<transportUp, sessionBy, reconnecting, pendingSub, outbox, lostPending>>
dispVars == <<dispMsg, todo, cur_key, invoked, settled>>
countVars == <<calls, msgs, drops>>

Payload == "100"
NoMsg == [topic |-> NoTopic, payload |-> ""]
EmptyMap == [p \in {} |-> NoHandler]

\* std::map::operator[](key) = value
MapPut(m, k, v) == [p \in (DOMAIN m) \cup {k} |-> IF p = k THEN v ELSE m[p]]

\* Either the state MqttClient::MqttClient leaves (no client object, not
\* connected, no callbacks), or the state the single-threaded start-up of
\* main() leaves before any other thread runs: connect() has been called
\* once and has succeeded.  The second state is the one the first reaches
\* by CallConnect, ConnLock, BrokerAck, ConnWait and Return.
\* no call of topicMatches outside dispatch
MatchIdle ==
    /\ m_topic = NoTopic
    /\ m_pattern = NoTopic
    /\ m_result = "none"

MqttInit ==
    /\ \E started \in BOOLEAN :
          /\ client_ = IF started THEN 1 ELSE 0
          /\ connected_ = started
          /\ transportUp = started
          /\ sessionBy = IF started THEN "connect" ELSE "none"
    /\ message_callbacks_ = EmptyMap
    /\ connection_mutex_ = NoThread
    /\ callbacks_mutex_ = NoThread
    /\ pc = [t \in Threads |-> "idle"]
    /\ op = [t \in Threads |-> "none"]
    /\ arg_topic = [t \in Threads |-> NoTopic]
    /\ arg_callback = [t \in Threads |-> NoHandler]
    /\ client_ptr = [t \in Threads |-> 0]
    /\ ret = [t \in Threads |-> "none"]
    /\ waitTok = [t \in Threads |-> "none"]
    /\ reconnecting = FALSE
    /\ pendingSub = {}
    /\ outbox = {}
    /\ lostPending = FALSE
    /\ dispMsg = NoMsg
    /\ todo = {}
    /\ cur_key = NoTopic
    /\ invoked = <<>>
    /\ settled = {}
    /\ calls = 0
    /\ msgs = 0
    /\ drops = 0

(***************************************************************************)
(* The collector's data: UpsData, its parsers and the device registry      *)
(***************************************************************************)
\* std::optional<T>: the empty set is std::nullopt, {v} holds v
NullOpt == {}
Some(v) == {v}
has_value(o) == o /= NullOpt

Digits == {"0", "1", "2", "3", "4", "5", "6", "7", "8", "9"}

DigitValue(c) ==
    CASE c = "0" -> 0 [] c = "1" -> 1 [] c = "2" -> 2 [] c = "3" -> 3
      [] c = "4" -> 4 [] c = "5" -> 5 [] c = "6" -> 6 [] c = "7" -> 7
      [] c = "8" -> 8 [] c = "9" -> 9

RECURSIVE SkipSpace(_)
\* std::stod / std::stoi discard leading whitespace
SkipSpace(str) ==
    IF str /= <<>> /\ Head(str) = " " THEN SkipSpace(Tail(str)) ELSE str

RECURSIVE DigitPrefix(_)
\* the longest prefix of str made of decimal digits
DigitPrefix(str) ==
    IF str /= <<>> /\ Head(str) \in Digits
    THEN <<Head(str)>> \o DigitPrefix(Tail(str))
    ELSE <<>>

RECURSIVE DecimalValue(_, _)
DecimalValue(digits, acc) ==
    IF digits = <<>> THEN acc
    ELSE DecimalValue(Tail(digits), acc * 10 + DigitValue(Head(digits)))

\* What std::stoi and std::stod have in common on the payloads modelled
\* here (whitespace, an optional sign, decimal digits, then anything): the
\* conversion consumes the longest numeric prefix and ignores what follows
\* it; with no digit to convert it throws std::invalid_argument, which
\* parseDouble / parseInt catch and turn into std::nullopt.  Whenever the
\* call returns, pos > 0.
ParseNumber(str) ==
    LET body == SkipSpace(str)
        signed == body /= <<>> /\ Head(body) \in {"-", "+"}
        digits == DigitPrefix(IF signed THEN Tail(body) ELSE body)
        magnitude == DecimalValue(digits, 0)
    IN IF digits = <<>> THEN NullOpt
       ELSE Some(IF signed /\ Head(body) = "-" THEN 0 - magnitude ELSE magnitude)

parseDouble(str) == ParseNumber(str)

parseInt(str) == ParseNumber(str)

RECURSIVE Find(_, _)
\* std::string::find(needle) /= npos
Find(str, needle) ==
    IF Len(str) < Len(needle) THEN FALSE
    ELSE IF SubSeq(str, 1, Len(needle)) = needle THEN TRUE
    ELSE Find(Tail(str), needle)

\* UpsData(): the fields of the record the model follows, all unset
UpsData ==
    [device_id |-> <<>>, timestamp |-> 0, battery_charge |-> NullOpt,
     battery_runtime |-> NullOpt, ups_status |-> NullOpt, power_failure |-> NullOpt]

\* UpsData::updateFieldFromMqtt at time now
updateFieldFromMqtt(data, sensor_name, value, now) ==
    LET stamped == [data EXCEPT !.timestamp = now]
    IN CASE sensor_name = "battery_charge" ->
              [stamped EXCEPT !.battery_charge = parseDouble(value)]
         [] sensor_name = "battery_runtime" ->
              [stamped EXCEPT !.battery_runtime = parseInt(value)]
         [] sensor_name \in {"ups_status", "status"} ->
              [stamped EXCEPT !.ups_status = Some(value),
                              !.power_failure = Some(Find(value, <<"O", "B">>))]
         [] sensor_name = "power_failure" ->
              [stamped EXCEPT !.power_failure =
                                 Some(value \in {<<"1">>, <<"t", "r", "u", "e">>, <<"o", "n">>})]
         [] OTHER -> stamped

\* UpsData::isValid
isValid(data) == has_value(data.battery_charge) /\ has_value(data.ups_status)

\* device identifiers as they appear in topics
D1 == <<"d", "1">>
D2 == <<"d", "2">>
MqttDeviceIds == {D1, D2}

\* a database identifier
DB1 == <<"d", "b", "1">>

\* DeviceMapper::mqtt_to_db_map_ as loaded at start-up: d1 has a database
\* identifier of its own, d2 has no mapping
StartupRegistry == [m \in {D1} |-> DB1]

\* DeviceMapper::getMqttDeviceId
getMqttDeviceId(db_identifier) ==
    IF db_identifier \in DOMAIN db_to_mqtt_map_
    THEN db_to_mqtt_map_[db_identifier]
    ELSE db_identifier

RECURSIVE parseDbMappingLoop(_, _, _)
\* the loop of DeviceMapper::parseDbMapping over root.getMemberNames(), the
\* keys of the JSON object in ascending order, on the two maps
parseDbMappingLoop(root, keys, maps) ==
    IF keys = {} THEN maps
    ELSE LET key == MinKey(keys)
             value == root[key]
         IN parseDbMappingLoop(root, keys \ {key},
                [mqtt_to_db |-> MapPut(maps.mqtt_to_db, key, value),
                 db_to_mqtt |-> MapPut(maps.db_to_mqtt, value, key)])

\* DeviceMapper::parseDbMapping of a JSON object given as a function
parseDbMapping(root, maps) == parseDbMappingLoop(root, DOMAIN root, maps)

\* no mapping
NoMapping == [d \in {} |-> <<>>]

\* the state DeviceMapper::initialize leaves when UPS_DEVICE_IDS names d1 and
\* d2 and UPS_DB_MAPPING is the JSON object mqtt_to_db_map_ was loaded from
MapperLoaded ==
    /\ db_to_mqtt_map_ =
          parseDbMapping(mqtt_to_db_map_,
                         [mqtt_to_db |-> NoMapping, db_to_mqtt |-> NoMapping]).db_to_mqtt
    /\ friendly_names_ = NoMapping
    /\ device_ids_ = <<D1, D2>>
    /\ initialized_ = TRUE
    /\ mapper_calls = 0

\* DeviceMapper::getDbIdentifier
getDbIdentifier(mqtt_device_id) ==
    IF mqtt_device_id \in DOMAIN mqtt_to_db_map_
    THEN mqtt_to_db_map_[mqtt_device_id]
    ELSE mqtt_device_id

\* The while (std::getline(ss, part, '/')) loop of parseTopic, on a topic
\* given by its levels: every level becomes a part, except that an empty
\* last level yields none
getlineParts(topic) ==
    IF topic /= <<>> /\ topic[Len(topic)] = ""
    THEN SubSeq(topic, 1, Len(topic) - 1)
    ELSE topic

\* CollectorService::parseTopic
parseTopic(topic) ==
    LET parts == getlineParts(topic)
    IN IF Len(parts) >= 5 THEN <<parts[3], parts[4]>> ELSE <<<<>>, "">>

NoDevices == [d \in {} |-> UpsData]
NoTimes == [d \in {} |-> 0]

\* the state CollectorService::CollectorService leaves, for a given interval
CollectorConstructed(interval) ==
    /\ running_ = FALSE
    /\ save_interval_seconds_ = interval
    /\ device_data_ = NoDevices
    /\ last_save_times_ = NoTimes
    /\ last_save_time_ = 0
    /\ data_mutex_ = NoThread
    /\ clock = 0
    /\ s_pc = "none"
    /\ s_now = 0
    /\ s_todo = {}
    /\ c_pc = "idle"
    /\ c_todo = {}
    /\ sink = <<>>
    /\ c_started = FALSE
    /\ updates = 0

\* CollectorService's default save_interval_seconds
DefaultSaveInterval == 3600

\* the collector with its default interval, before anything is done with it
CollectorIdle == CollectorConstructed(DefaultSaveInterval)

\* a default-constructed UpsData that nothing has been merged into
UpdateIdle ==
    /\ u_record = UpsData
    /\ u_sensor_name = ""
    /\ u_value = <<>>
    /\ u_now = 0

\* the registry as loaded at start-up; the handler not called on its own
HandlerIdle ==
    /\ mqtt_to_db_map_ = StartupRegistry
    /\ MapperLoaded
    /\ h_topic = <<>>

(***************************************************************************)
(* The bridge's data: a snapshot of NUT variables, the record made of it   *)
(* and the messages made of the record                                     *)
(***************************************************************************)
\* *opt of an optional that has a value
Deref(o) == CHOOSE v \in o : TRUE

DigitChar(d) == CHOOSE c \in Digits : DigitValue(c) = d

RECURSIVE NatToString(_)
NatToString(n) ==
    IF n < 10 THEN <<DigitChar(n)>>
    ELSE NatToString(n \div 10) \o <<DigitChar(n % 10)>>

\* std::to_string(int)
to_string_int(v) == IF v < 0 THEN <<"-">> \o NatToString(0 - v) ELSE NatToString(v)

\* std::to_string(double), which formats with "%f": six decimals
to_string_double(v) == to_string_int(v) \o <<".", "0", "0", "0", "0", "0", "0">>

\* getString of UpsData.cpp: the value of key, unless missing or empty
getString(nutvars, key) ==
    IF key \in DOMAIN nutvars /\ nutvars[key] /= <<>> THEN Some(nutvars[key]) ELSE NullOpt

\* UpsData(), with the fields of the record the bridge's model follows
BridgeUpsData ==
    [device_id |-> <<>>, timestamp |-> 0, battery_charge |-> NullOpt,
     battery_runtime |-> NullOpt, battery_low_threshold |-> NullOpt,
     battery_type |-> NullOpt, ups_status |-> NullOpt, power_failure |-> NullOpt,
     delay_shutdown |-> NullOpt]

\* UpsData::fromNutVariables at time now
fromNutVariables(device_id, nutvars, now) ==
    LET parsed(key, parse(_)) ==
            IF has_value(getString(nutvars, key))
            THEN parse(Deref(getString(nutvars, key)))
            ELSE NullOpt
        status == getString(nutvars, "ups.status")
    IN [device_id |-> device_id,
        timestamp |-> now,
        battery_charge |-> parsed("battery.charge", parseDouble),
        battery_runtime |-> parsed("battery.runtime", parseInt),
        battery_low_threshold |-> parsed("battery.charge.low", parseDouble),
        battery_type |-> getString(nutvars, "battery.type"),
        ups_status |-> status,
        power_failure |-> IF has_value(status)
                          THEN Some(Find(Deref(status), <<"O", "B">>))
                          ELSE NullOpt,
        delay_shutdown |-> parsed("ups.delay.shutdown", parseInt)]

\* UpsData::toMqttMessages: the messages in the order they are pushed
toMqttMessages(data) ==
    LET addMessage(present, sensor, value) ==
            IF present
            THEN <<[topic |-> <<"homeassistant", "sensor", data.device_id, sensor, "state">>,
                    payload |-> value, qos |-> 1, retain |-> FALSE]>>
            ELSE <<>>
        text(o, format(_)) == IF has_value(o) THEN format(Deref(o)) ELSE <<>>
        same(v) == v
        flag(v) == IF v THEN <<"1">> ELSE <<"0">>
    IN    addMessage(has_value(data.battery_charge), "battery_charge",
                     text(data.battery_charge, to_string_double))
       \o addMessage(has_value(data.battery_runtime), "battery_runtime",
                     text(data.battery_runtime, to_string_int))
       \o addMessage(has_value(data.battery_low_threshold), "battery_low_charge_threshold",
                     text(data.battery_low_threshold, to_string_double))
       \o addMessage(has_value(data.ups_status), "ups_status",
                     text(data.ups_status, same))
       \o addMessage(has_value(data.power_failure), "power_failure",
                     text(data.power_failure, flag))

\* the device the bridge is configured for
BridgeDevice == D1

\* no call of fromNutVariables or toMqttMessages on their own
ConvIdle ==
    /\ n_vars = <<>>
    /\ n_data = BridgeUpsData
    /\ n_messages = NullOpt

\* the state NutBridgeService::NutBridgeService and NutClient::NutClient leave
BridgeIdle ==
    /\ bridge_running_ = FALSE
    /\ discovery_published_ = FALSE
    /\ nut_connected_ = FALSE
    /\ ups_conn_ = 0
    /\ nut_live = 0
    /\ nr_pc = "idle"
    /\ reconnect_attempts_ = 0
    /\ backoff_sec = NullOpt
    /\ w_pc = "none"
    /\ w_vars = <<>>
    /\ w_data = BridgeUpsData
    /\ w_todo = <<>>
    /\ w_all_success = TRUE
    /\ cycle_pub = {}
    /\ cycle_end = "none"
    /\ b_pc = "new"
    /\ bridge_mutex_ = "none"
    /\ last_poll_time_ = 0
    /\ r_ret = "none"
    /\ r_calls = 0
    /\ disc_epoch = NullOpt
    /\ bus_back = NullOpt

\* the mutexes of the collector's process, in the order of the README's
\* inventory; db_connection_mutex_ is DatabaseService::connection_mutex_
LockNames ==
    {"connection_mutex_", "callbacks_mutex_", "data_mutex_", "status_mutex_",
     "db_connection_mutex_", "cache_mutex_"}

\* the transport's callback thread, the saver thread, the thread that stops
\* the collector, a thread that publishes and subscribes, and a thread that
\* asks for the status
LockThreads == {"cb", "saver", "control", "app", "status"}

\* no lock held, no call going on, the collector not started
OrderIdle ==
    /\ lk = [m \in LockNames |-> "none"]
    /\ l_todo = [t \in LockThreads |-> <<>>]
    /\ l_running = FALSE

Init ==
    /\ MqttInit
    /\ MatchIdle
    /\ CollectorIdle
    /\ UpdateIdle
    /\ HandlerIdle
    /\ ConvIdle
    /\ BridgeIdle
    /\ OrderIdle

(***************************************************************************)
(* Helpers shared by the operations                                        *)
(***************************************************************************)
\* the process has ended: a thread dereferenced a dangling pointer, or an
\* exception left a thread and std::terminate was called
Crashed == \E t \in Threads : pc[t] = "crashed"

\* the value isConnected() computes under the lock
IsConnectedValue == connected_ /\ client_ /= 0 /\ transportUp

\* std::recursive_mutex: free, or already owned by the calling thread
CanLock(m, t) == m = NoThread \/ m = t

\* the operation of thread t reaches a return statement with result r
Finish(t, r) ==
    /\ pc' = [pc EXCEPT ![t] = "returning"]
    /\ ret' = [ret EXCEPT ![t] = r]

\* where a thread continues when its operation has returned: an application
\* thread is back in its caller, the callback thread is back in the
\* dispatch loop of onMessageArrived that invoked the callback
AfterReturn(t) == IF t = CbThread THEN "disp_loop" ELSE "idle"

\* the callback that is running ends with outcome o
SetOutcome(o) == [invoked EXCEPT ![Len(invoked)].outcome = o]

\* The operation returns to its caller and its locals go out of scope.  On
\* the callback thread the caller is the running callback, whose last
\* statement the call was: it returns too, or the std::system_error that
\* left subscribe() leaves the callback and is caught by onMessageArrived.
Return(t) ==
    /\ pc[t] = "returning"
    /\ pc' = [pc EXCEPT ![t] = AfterReturn(t)]
    /\ op' = [op EXCEPT ![t] = "none"]
    /\ arg_topic' = [arg_topic EXCEPT ![t] = NoTopic]
    /\ arg_callback' = [arg_callback EXCEPT ![t] = NoHandler]
    /\ client_ptr' = [client_ptr EXCEPT ![t] = 0]
    /\ ret' = [ret EXCEPT ![t] = "none"]
    /\ invoked' = IF t = CbThread
                  THEN SetOutcome(IF ret[t] = "system_error" THEN "caught" ELSE "returned")
                  ELSE invoked
    /\ UNCHANGED <<clientVars, lockVars, waitTok, transportVars, dispMsg, todo,
                   cur_key, settled, countVars>>
    /\ UNCHANGED otherVars

\* std::map::erase(key)
MapErase(m, k) == [p \in (DOMAIN m) \ {k} |-> m[p]]

(***************************************************************************)
(* The application calls an operation of the client                        *)
(***************************************************************************)
StartCall(t, o, tp, h, entry) ==
    /\ pc[t] = "idle"
    /\ calls < MaxCalls
    /\ calls' = calls + 1
    /\ op' = [op EXCEPT ![t] = o]
    /\ arg_topic' = [arg_topic EXCEPT ![t] = tp]
    /\ arg_callback' = [arg_callback EXCEPT ![t] = h]
    /\ ret' = [ret EXCEPT ![t] = "none"]
    /\ pc' = [pc EXCEPT ![t] = entry]
    /\ UNCHANGED <<clientVars, lockVars, transportVars, dispVars, client_ptr,
                   waitTok, msgs, drops>>
    /\ UNCHANGED otherVars

CallConnect(t) ==
    /\ client_ + Cardinality({u \in Threads : pc[u] = "conn_lock"}) < MaxClients
    /\ StartCall(t, "connect", NoTopic, NoHandler, "conn_lock")

CallDisconnect(t) == StartCall(t, "disconnect", NoTopic, NoHandler, "disc_lock")

CallIsConnected(t) == StartCall(t, "isConnected", NoTopic, NoHandler, "isc_lock")

CallSubscribe(t) ==
    \E p \in Patterns, h \in Handlers : StartCall(t, "subscribe", p, h, "isc_lock")

CallUnsubscribe(t) ==
    \E p \in Patterns : StartCall(t, "unsubscribe", p, NoHandler, "isc_lock")

CallPublish(t) ==
    \E tp \in PubTopics : StartCall(t, "publish", tp, NoHandler, "isc_lock")

(***************************************************************************)
(* connect()                                                               *)
(***************************************************************************)
\* lock_guard; client_ = make_unique<async_client>; set callbacks and
\* options; client_->connect(connOpts).  Replacing client_ destroys the
\* previous async_client and with it its session.
ConnLock(t) ==
    /\ pc[t] = "conn_lock"
    /\ CanLock(connection_mutex_, t)
    /\ connection_mutex_' = t
    /\ client_' = client_ + 1
    /\ transportUp' = FALSE
    /\ sessionBy' = "none"
    /\ reconnecting' = FALSE
    /\ pendingSub' = {}
    /\ outbox' = {}
    /\ waitTok' = [waitTok EXCEPT ![t] = "pending"]
    /\ pc' = [pc EXCEPT ![t] = "conn_wait"]
    /\ UNCHANGED <<connected_, message_callbacks_, callbacks_mutex_, op,
                   arg_topic, arg_callback, client_ptr, ret, lostPending,
                   dispVars, countVars>>
    /\ UNCHANGED otherVars

\* conntok->wait() returns or throws; connected_ is set accordingly and the
\* lock_guard releases connection_mutex_
ConnWait(t) ==
    /\ pc[t] = "conn_wait"
    /\ waitTok[t] \in {"ok", "fail"}
    /\ connected_' = (waitTok[t] = "ok")
    /\ connection_mutex_' = NoThread
    /\ waitTok' = [waitTok EXCEPT ![t] = "none"]
    /\ Finish(t, IF waitTok[t] = "ok" THEN "ok" ELSE "exception")
    /\ UNCHANGED <<client_, message_callbacks_, callbacks_mutex_, op, arg_topic,
                   arg_callback, client_ptr, transportVars, dispVars, countVars>>
    /\ UNCHANGED otherVars

(***************************************************************************)
(* disconnect()                                                            *)
(***************************************************************************)
\* lock_guard; if (client_ && connected_) client_->disconnect(), which
\* throws when the transport has no session
DiscLock(t) ==
    /\ pc[t] = "disc_lock"
    /\ CanLock(connection_mutex_, t)
    /\ IF client_ /= 0 /\ connected_ /\ transportUp
       THEN /\ connection_mutex_' = t
            /\ waitTok' = [waitTok EXCEPT ![t] = "pending"]
            /\ pc' = [pc EXCEPT ![t] = "disc_wait"]
            /\ UNCHANGED ret
       ELSE /\ Finish(t, IF client_ /= 0 /\ connected_ THEN "exception" ELSE "ok")
            /\ UNCHANGED <<connection_mutex_, waitTok>>
    /\ UNCHANGED <<clientVars, callbacks_mutex_, op, arg_topic, arg_callback,
                   client_ptr, transportVars, dispVars, countVars>>
    /\ UNCHANGED otherVars

\* ->wait() returns: connected_ = false; or it throws and the flag is left
DiscWait(t) ==
    /\ pc[t] = "disc_wait"
    /\ waitTok[t] \in {"ok", "fail"}
    /\ connected_' = IF waitTok[t] = "ok" THEN FALSE ELSE connected_
    /\ connection_mutex_' = NoThread
    /\ waitTok' = [waitTok EXCEPT ![t] = "none"]
    /\ Finish(t, IF waitTok[t] = "ok" THEN "ok" ELSE "exception")
    /\ UNCHANGED <<client_, message_callbacks_, callbacks_mutex_, op, arg_topic,
                   arg_callback, client_ptr, transportVars, dispVars, countVars>>
    /\ UNCHANGED otherVars

(***************************************************************************)
(* isConnected(), also the first statement of subscribe, unsubscribe and   *)
(* publish                                                                 *)
(***************************************************************************)
\* std::lock_guard<std::recursive_mutex> lock(connection_mutex_)
IscLock(t) ==
    /\ pc[t] = "isc_lock"
    /\ CanLock(connection_mutex_, t)
    /\ connection_mutex_' = t
    /\ pc' = [pc EXCEPT ![t] = "isc_read"]
    /\ UNCHANGED <<clientVars, callbacks_mutex_, op, arg_topic, arg_callback,
                   client_ptr, ret, waitTok, transportVars, dispVars, countVars>>
    /\ UNCHANGED otherVars

\* where the caller of isConnected() goes when it returned true
AfterCheck(o) ==
    CASE o = "subscribe" -> "sub_trylock"
      [] o = "unsubscribe" -> "unsub_lock"
      [] o = "publish" -> "pub_lock"

\* return connected_ && client_ && client_->is_connected(); the caller
\* returns false at once when the value is false
IscRead(t) ==
    /\ pc[t] = "isc_read"
    /\ connection_mutex_' = NoThread
    /\ IF op[t] = "isConnected"
       THEN Finish(t, IF IsConnectedValue THEN "true" ELSE "false")
       ELSE IF ~IsConnectedValue
       THEN Finish(t, "not_connected")
       ELSE /\ pc' = [pc EXCEPT ![t] = AfterCheck(op[t])]
            /\ UNCHANGED ret
    /\ UNCHANGED <<clientVars, callbacks_mutex_, op, arg_topic, arg_callback,
                   client_ptr, waitTok, transportVars, dispVars, countVars>>
    /\ UNCHANGED otherVars

(***************************************************************************)
(* subscribe()                                                             *)
(***************************************************************************)
\* std::unique_lock lock(connection_mutex_, std::try_to_lock); a lock that
\* is not obtained makes subscribe return false ("Mutex busy")
SubTryLock(t) ==
    /\ pc[t] = "sub_trylock"
    /\ IF CanLock(connection_mutex_, t)
       THEN /\ connection_mutex_' = t
            /\ pc' = [pc EXCEPT ![t] = "sub_getptr"]
            /\ UNCHANGED ret
       ELSE /\ Finish(t, "mutex_busy")
            /\ UNCHANGED connection_mutex_
    /\ UNCHANGED <<clientVars, callbacks_mutex_, op, arg_topic, arg_callback,
                   client_ptr, waitTok, transportVars, dispVars, countVars>>
    /\ UNCHANGED otherVars

\* client_ptr = client_.get(); the block ends and releases the lock
SubGetPtr(t) ==
    /\ pc[t] = "sub_getptr"
    /\ client_ptr' = [client_ptr EXCEPT ![t] = client_]
    /\ connection_mutex_' = NoThread
    /\ pc' = [pc EXCEPT ![t] = "sub_store"]
    /\ UNCHANGED <<clientVars, callbacks_mutex_, op, arg_topic, arg_callback,
                   ret, waitTok, transportVars, dispVars, countVars>>
    /\ UNCHANGED otherVars

\* subscribe() going on to the network request without having stored the
\* callback (registration left for after the request)
SubStoreSkipped(t) ==
    /\ pc[t] = "sub_store"
    /\ callbacks_mutex_ = NoThread
    /\ pc' = [pc EXCEPT ![t] = "sub_issue"]
    /\ UNCHANGED <<clientVars, lockVars, op, arg_topic, arg_callback,
                   client_ptr, ret, waitTok, transportVars, dispVars, countVars>>
    /\ UNCHANGED otherVars

\* subscribe() registering with emplace(): a pattern that is already
\* registered keeps its earlier callback
SubStoreKeepFirst(t) ==
    /\ pc[t] = "sub_store"
    /\ callbacks_mutex_ = NoThread
    /\ message_callbacks_' = IF arg_topic[t] \in DOMAIN message_callbacks_
                              THEN message_callbacks_
                              ELSE MapPut(message_callbacks_, arg_topic[t], arg_callback[t])
    /\ pc' = [pc EXCEPT ![t] = "sub_issue"]
    /\ UNCHANGED <<client_, connected_, lockVars, op, arg_topic, arg_callback,
                   client_ptr, ret, waitTok, transportVars, dispVars, countVars>>
    /\ UNCHANGED otherVars

\* { lock_guard lock(callbacks_mutex_); message_callbacks_[topic] = callback; }
SubStore(t) ==
    /\ pc[t] = "sub_store"
    /\ callbacks_mutex_ = NoThread
    /\ message_callbacks_' = MapPut(message_callbacks_, arg_topic[t], arg_callback[t])
    /\ pc' = [pc EXCEPT ![t] = "sub_issue"]
    /\ UNCHANGED <<client_, connected_, lockVars, op, arg_topic, arg_callback,
                   client_ptr, ret, waitTok, transportVars, dispVars, countVars>>
    /\ UNCHANGED otherVars

\* The same statement executed by the thread that already owns
\* callbacks_mutex_ (a callback that subscribes from inside dispatch):
\* locking a std::mutex the thread owns is undefined behaviour.  The thread
\* either blocks on itself for ever, or lock() throws std::system_error,
\* which subscribe does not catch (it catches mqtt::exception) and which
\* therefore leaves the callback and is caught by onMessageArrived.
SubStoreRelock(t) ==
    /\ pc[t] = "sub_store"
    /\ callbacks_mutex_ = t
    /\ \/ /\ pc' = [pc EXCEPT ![t] = "self_deadlock"]
          /\ UNCHANGED ret
       \/ Finish(t, "system_error")
    /\ UNCHANGED <<clientVars, lockVars, op, arg_topic, arg_callback,
                   client_ptr, waitTok, transportVars, dispVars, countVars>>
    /\ UNCHANGED otherVars

\* if (client_ptr) client_ptr->subscribe(topic, qos); return true;
\* async_client::subscribe throws mqtt::exception without a session
SubIssue(t) ==
    /\ pc[t] = "sub_issue"
    /\ client_ptr[t] = client_ \/ client_ptr[t] = 0
    /\ IF client_ptr[t] = 0
       THEN /\ Finish(t, "ok")
            /\ UNCHANGED pendingSub
       ELSE IF transportUp
       THEN /\ pendingSub' = pendingSub \cup {arg_topic[t]}
            /\ Finish(t, "ok")
       ELSE /\ Finish(t, "exception")
            /\ UNCHANGED pendingSub
    /\ UNCHANGED <<clientVars, lockVars, op, arg_topic, arg_callback,
                   client_ptr, waitTok, transportUp, sessionBy, reconnecting,
                   outbox, lostPending, dispVars, countVars>>
    /\ UNCHANGED otherVars

\* The same statement when connect() has replaced client_ since client_ptr
\* was read: client_ptr points to a destroyed async_client.  Undefined
\* behaviour: the process crashes, or the call throws, or it returns
\* without having reached any broker.
SubIssueDangling(t) ==
    /\ pc[t] = "sub_issue"
    /\ client_ptr[t] /= client_
    /\ client_ptr[t] /= 0
    /\ \/ /\ pc' = [u \in Threads |-> "crashed"]
          /\ UNCHANGED ret
       \/ Finish(t, "exception")
       \/ Finish(t, "ok")
    /\ UNCHANGED <<clientVars, lockVars, op, arg_topic, arg_callback,
                   client_ptr, waitTok, transportVars, dispVars, countVars>>
    /\ UNCHANGED otherVars

(***************************************************************************)
(* unsubscribe()                                                           *)
(***************************************************************************)
\* lock_guard lock(connection_mutex_); client_->unsubscribe(topic), which
\* throws without a session (the lock is released by unwinding)
UnsubLock(t) ==
    /\ pc[t] = "unsub_lock"
    /\ CanLock(connection_mutex_, t)
    /\ IF transportUp
       THEN /\ connection_mutex_' = t
            /\ waitTok' = [waitTok EXCEPT ![t] = "pending"]
            /\ pc' = [pc EXCEPT ![t] = "unsub_wait"]
            /\ UNCHANGED ret
       ELSE /\ Finish(t, "exception")
            /\ UNCHANGED <<connection_mutex_, waitTok>>
    /\ UNCHANGED <<clientVars, callbacks_mutex_, op, arg_topic, arg_callback,
                   client_ptr, transportVars, dispVars, countVars>>
    /\ UNCHANGED otherVars

\* ->wait() under the lock: returns when UNSUBACK arrived, throws otherwise
UnsubWait(t) ==
    /\ pc[t] = "unsub_wait"
    /\ waitTok[t] \in {"ok", "fail"}
    /\ connection_mutex_' = NoThread
    /\ waitTok' = [waitTok EXCEPT ![t] = "none"]
    /\ IF waitTok[t] = "ok"
       THEN /\ pc' = [pc EXCEPT ![t] = "unsub_erase"]
            /\ UNCHANGED ret
       ELSE Finish(t, "exception")
    /\ UNCHANGED <<clientVars, callbacks_mutex_, op, arg_topic, arg_callback,
                   client_ptr, transportVars, dispVars, countVars>>
    /\ UNCHANGED otherVars

\* unsubscribe() returning true with the callback left in the registry
UnsubEraseSkipped(t) ==
    /\ pc[t] = "unsub_erase"
    /\ callbacks_mutex_ = NoThread
    /\ Finish(t, "ok")
    /\ UNCHANGED <<clientVars, lockVars, op, arg_topic, arg_callback,
                   client_ptr, waitTok, transportVars, dispVars, countVars>>
    /\ UNCHANGED otherVars

\* { lock_guard lock(callbacks_mutex_); message_callbacks_.erase(topic); }
UnsubErase(t) ==
    /\ pc[t] = "unsub_erase"
    /\ callbacks_mutex_ = NoThread
    /\ message_callbacks_' = MapErase(message_callbacks_, arg_topic[t])
    /\ Finish(t, "ok")
    /\ UNCHANGED <<client_, connected_, lockVars, op, arg_topic, arg_callback,
                   client_ptr, waitTok, transportVars, dispVars, countVars>>
    /\ UNCHANGED otherVars

(***************************************************************************)
(* publish()                                                               *)
(***************************************************************************)
\* std::lock_guard<std::recursive_mutex> lock(connection_mutex_)
PubLock(t) ==
    /\ pc[t] = "pub_lock"
    /\ CanLock(connection_mutex_, t)
    /\ connection_mutex_' = t
    /\ pc' = [pc EXCEPT ![t] = "pub_send"]
    /\ UNCHANGED <<clientVars, callbacks_mutex_, op, arg_topic, arg_callback,
                   client_ptr, ret, waitTok, transportVars, dispVars, countVars>>
    /\ UNCHANGED otherVars

\* client_->publish(pubmsg)->wait() inside the locked block: the thread
\* keeps connection_mutex_ while it waits for the acknowledgment
PubSendAndWait(t) ==
    /\ pc[t] = "pub_send"
    /\ waitTok[t] = "none"
    /\ transportUp
    /\ outbox' = outbox \cup {arg_topic[t]}
    /\ waitTok' = [waitTok EXCEPT ![t] = "pending"]
    /\ UNCHANGED <<clientVars, lockVars, pc, op, arg_topic, arg_callback,
                   client_ptr, ret, transportUp, sessionBy, reconnecting,
                   pendingSub, lostPending, dispVars, countVars>>
    /\ UNCHANGED otherVars

\* client_->publish(pubmsg) without ->wait(); the block ends and releases
\* the lock; async_client::publish throws mqtt::exception without a session
PubSend(t) ==
    /\ pc[t] = "pub_send"
    /\ connection_mutex_' = NoThread
    /\ IF transportUp
       THEN /\ outbox' = outbox \cup {arg_topic[t]}
            /\ Finish(t, "ok")
       ELSE /\ Finish(t, "exception")
            /\ UNCHANGED outbox
    /\ UNCHANGED <<clientVars, callbacks_mutex_, op, arg_topic, arg_callback,
                   client_ptr, waitTok, transportUp, sessionBy, reconnecting,
                   pendingSub, lostPending, dispVars, countVars>>
    /\ UNCHANGED otherVars

(***************************************************************************)
(* The transport (Paho async_client) and the broker behind it              *)
(***************************************************************************)
\* the broker answers the request a thread waits on in connect(),
\* disconnect() or unsubscribe()
BrokerAck(t) ==
    /\ ~Crashed
    /\ pc[t] \in {"conn_wait", "disc_wait", "unsub_wait"}
    /\ waitTok[t] = "pending"
    /\ waitTok' = [waitTok EXCEPT ![t] = "ok"]
    /\ CASE pc[t] = "conn_wait" ->
              /\ transportUp' = TRUE
              /\ sessionBy' = "connect"
              /\ UNCHANGED <<pendingSub, outbox>>
         [] pc[t] = "disc_wait" ->
              /\ transportUp' = FALSE
              /\ sessionBy' = "none"
              /\ pendingSub' = {}
              /\ outbox' = {}
         [] pc[t] = "unsub_wait" ->
              /\ pendingSub' = pendingSub \ {arg_topic[t]}
              /\ UNCHANGED <<transportUp, sessionBy, outbox>>
    /\ UNCHANGED <<clientVars, lockVars, pc, op, arg_topic, arg_callback,
                   client_ptr, ret, reconnecting, lostPending, dispVars,
                   countVars>>
    /\ UNCHANGED otherVars

\* the broker refuses the connection, or the handshake times out
BrokerRefuse(t) ==
    /\ pc[t] = "conn_wait"
    /\ waitTok[t] = "pending"
    /\ waitTok' = [waitTok EXCEPT ![t] = "fail"]
    /\ UNCHANGED <<clientVars, lockVars, pc, op, arg_topic, arg_callback,
                   client_ptr, ret, transportVars, dispVars, countVars>>
    /\ UNCHANGED otherVars

\* SUBACK arrives for a subscribe request nobody waits on
SubAck(p) ==
    /\ ~Crashed
    /\ p \in pendingSub
    /\ pendingSub' = pendingSub \ {p}
    /\ UNCHANGED <<clientVars, lockVars, pc, op, arg_topic, arg_callback,
                   client_ptr, ret, waitTok, transportUp, sessionBy,
                   reconnecting, outbox, lostPending, dispVars, countVars>>
    /\ UNCHANGED otherVars

\* PUBACK arrives for a publish nobody waits on
PubAck(m) ==
    /\ ~Crashed
    /\ m \in outbox
    /\ outbox' = outbox \ {m}
    /\ UNCHANGED <<clientVars, lockVars, pc, op, arg_topic, arg_callback,
                   client_ptr, ret, waitTok, transportUp, sessionBy,
                   reconnecting, pendingSub, lostPending, dispVars,
                   countVars>>
    /\ UNCHANGED otherVars

\* The connection drops.  The session was clean (set_clean_session(true)),
\* so the broker forgets the subscriptions; requests in flight fail; the
\* connection-lost handler set in connect() is scheduled; automatic
\* reconnect (set_automatic_reconnect(1, 64)) started retrying.
ConnectionDrops ==
    /\ ~Crashed
    /\ transportUp
    /\ drops < MaxDrops
    /\ drops' = drops + 1
    /\ transportUp' = FALSE
    /\ sessionBy' = "none"
    /\ reconnecting' = TRUE
    /\ lostPending' = TRUE
    /\ pendingSub' = {}
    /\ outbox' = {}
    /\ waitTok' = [t \in Threads |-> IF waitTok[t] = "pending" THEN "fail" ELSE waitTok[t]]
    /\ UNCHANGED <<clientVars, lockVars, pc, op, arg_topic, arg_callback,
                   client_ptr, ret, dispVars, calls, msgs>>
    /\ UNCHANGED otherVars

\* Paho's automatic reconnect restores the session by itself
AutoReconnect ==
    /\ ~Crashed
    /\ reconnecting
    /\ ~transportUp
    /\ client_ /= 0
    /\ transportUp' = TRUE
    /\ sessionBy' = "reconnect"
    /\ reconnecting' = FALSE
    /\ UNCHANGED <<clientVars, lockVars, pc, op, arg_topic, arg_callback,
                   client_ptr, ret, waitTok, pendingSub, outbox,
                   lostPending, dispVars, countVars>>
    /\ UNCHANGED otherVars

(***************************************************************************)
(* onConnectionLost(), on the callback thread                              *)
(***************************************************************************)
\* lock_guard lock(connection_mutex_); connected_ = false;
OnConnectionLost ==
    /\ lostPending
    /\ pc[CbThread] = "idle"
    /\ CanLock(connection_mutex_, CbThread)
    /\ connected_' = FALSE
    /\ lostPending' = FALSE
    /\ UNCHANGED <<client_, message_callbacks_, lockVars, pc, op, arg_topic,
                   arg_callback, client_ptr, ret, waitTok, transportUp,
                   sessionBy, reconnecting, pendingSub, outbox,
                   dispVars, countVars>>
    /\ UNCHANGED otherVars

(***************************************************************************)
(* onMessageArrived(), on the callback thread                              *)
(***************************************************************************)
\* the transport calls the message callback set in connect()
MessageArrives ==
    /\ pc[CbThread] = "idle"
    /\ transportUp
    /\ msgs < MaxMsgs
    /\ msgs' = msgs + 1
    /\ \E tp \in Topics : dispMsg' = [topic |-> tp, payload |-> Payload]
    /\ invoked' = <<>>
    /\ settled' = {p \in DOMAIN message_callbacks_ :
                       \A t \in Threads : ~(op[t] = "subscribe" /\ arg_topic[t] = p)}
    /\ pc' = [pc EXCEPT ![CbThread] = "disp_lock"]
    /\ UNCHANGED <<clientVars, lockVars, op, arg_topic, arg_callback,
                   client_ptr, ret, waitTok, transportVars, todo, cur_key,
                   calls, drops>>
    /\ UNCHANGED otherVars

\* std::lock_guard<std::mutex> lock(callbacks_mutex_); the range-for started
DispLock ==
    /\ pc[CbThread] = "disp_lock"
    /\ callbacks_mutex_ = NoThread
    /\ callbacks_mutex_' = CbThread
    /\ todo' = DOMAIN message_callbacks_
    /\ pc' = [pc EXCEPT ![CbThread] = "disp_loop"]
    /\ UNCHANGED <<clientVars, connection_mutex_, op, arg_topic, arg_callback,
                   client_ptr, ret, waitTok, transportVars, dispMsg, cur_key,
                   invoked, settled, countVars>>
    /\ UNCHANGED otherVars

\* one iteration of for (const auto& [pattern, callback] : message_callbacks_):
\* if (topicMatches(topic, pattern)) callback(topic, payload);
\* after the last iteration the function returns and the lock_guard unlocks
DispLoop ==
    /\ pc[CbThread] = "disp_loop"
    /\ IF todo = {}
       THEN /\ callbacks_mutex_' = NoThread
            /\ pc' = [pc EXCEPT ![CbThread] = "idle"]
            /\ dispMsg' = NoMsg
            /\ cur_key' = NoTopic
            /\ invoked' = <<>>
            /\ settled' = {}
            /\ UNCHANGED todo
       ELSE LET pattern == MinKey(todo)
            IN /\ todo' = todo \ {pattern}
               /\ IF topicMatches(dispMsg.topic, pattern)
                  THEN /\ cur_key' = pattern
                       /\ invoked' = Append(invoked,
                              [pattern |-> pattern,
                               handler |-> message_callbacks_[pattern],
                               topic |-> dispMsg.topic,
                               payload |-> dispMsg.payload,
                               outcome |-> "running"])
                       /\ pc' = [pc EXCEPT ![CbThread] = "in_callback"]
                  ELSE UNCHANGED <<cur_key, invoked, pc>>
               /\ UNCHANGED <<callbacks_mutex_, dispMsg, settled>>
    /\ UNCHANGED <<clientVars, connection_mutex_, op, arg_topic, arg_callback,
                   client_ptr, ret, waitTok, transportVars, countVars>>
    /\ UNCHANGED otherVars

\* the callback returns normally: the loop goes on
CallbackReturns ==
    /\ pc[CbThread] = "in_callback"
    /\ pc' = [pc EXCEPT ![CbThread] = "disp_loop"]
    /\ invoked' = SetOutcome("returned")
    /\ UNCHANGED <<clientVars, lockVars, op, arg_topic, arg_callback,
                   client_ptr, ret, waitTok, transportVars, dispMsg, todo,
                   cur_key, settled, countVars>>
    /\ UNCHANGED otherVars

\* the callback throws an exception derived from std::exception:
\* catch (const std::exception& e) logs it and the loop goes on
CallbackThrowsStd ==
    /\ pc[CbThread] = "in_callback"
    /\ pc' = [pc EXCEPT ![CbThread] = "disp_loop"]
    /\ invoked' = SetOutcome("caught")
    /\ UNCHANGED <<clientVars, lockVars, op, arg_topic, arg_callback,
                   client_ptr, ret, waitTok, transportVars, dispMsg, todo,
                   cur_key, settled, countVars>>
    /\ UNCHANGED otherVars

\* the callback throws a value that is not a std::exception: no catch
\* clause of onMessageArrived matches, the exception leaves the function
\* and reaches the transport's callback thread, where nothing catches it:
\* std::terminate ends the process
CallbackEscapes ==
    /\ pc[CbThread] = "in_callback"
    /\ pc' = [u \in Threads |-> IF u = CbThread THEN "escaped" ELSE "crashed"]
    /\ invoked' = SetOutcome("escaped")
    /\ UNCHANGED <<clientVars, lockVars, op, arg_topic, arg_callback,
                   client_ptr, ret, waitTok, transportVars, dispMsg, todo,
                   cur_key, settled, countVars>>
    /\ UNCHANGED otherVars

\* the callback calls publish(topic, payload) on the client
CallbackPublishes ==
    /\ pc[CbThread] = "in_callback"
    /\ op' = [op EXCEPT ![CbThread] = "publish"]
    /\ arg_topic' = [arg_topic EXCEPT ![CbThread] = T_abc]
    /\ ret' = [ret EXCEPT ![CbThread] = "none"]
    /\ pc' = [pc EXCEPT ![CbThread] = "isc_lock"]
    /\ UNCHANGED <<clientVars, lockVars, arg_callback, client_ptr, waitTok,
                   transportVars, dispVars, countVars>>
    /\ UNCHANGED otherVars

\* the callback calls subscribe(pattern, callback) on the client
CallbackSubscribes ==
    /\ pc[CbThread] = "in_callback"
    /\ op' = [op EXCEPT ![CbThread] = "subscribe"]
    /\ arg_topic' = [arg_topic EXCEPT ![CbThread] = cur_key]
    /\ arg_callback' = [arg_callback EXCEPT ![CbThread] = message_callbacks_[cur_key]]
    /\ ret' = [ret EXCEPT ![CbThread] = "none"]
    /\ pc' = [pc EXCEPT ![CbThread] = "isc_lock"]
    /\ UNCHANGED <<clientVars, lockVars, client_ptr, waitTok, transportVars,
                   dispVars, countVars>>
    /\ UNCHANGED otherVars

(***************************************************************************)
(* Specification                                                           *)
(***************************************************************************)
\* Two application threads call the six operations concurrently while the
\* transport acknowledges, drops and restores the connection.
Next ==
    \/ \E t \in AppThreads : CallConnect(t)
    \/ \E t \in AppThreads : CallDisconnect(t)
    \/ \E t \in AppThreads : CallIsConnected(t)
    \/ \E t \in AppThreads : CallSubscribe(t)
    \/ \E t \in AppThreads : CallUnsubscribe(t)
    \/ \E t \in AppThreads : CallPublish(t)
    \/ \E t \in AppThreads : Return(t)
    \/ \E t \in AppThreads : ConnLock(t)
    \/ \E t \in AppThreads : ConnWait(t)
    \/ \E t \in AppThreads : DiscLock(t)
    \/ \E t \in AppThreads : DiscWait(t)
    \/ \E t \in AppThreads : IscLock(t)
    \/ \E t \in AppThreads : IscRead(t)
    \/ \E t \in AppThreads : SubTryLock(t)
    \/ \E t \in AppThreads : SubGetPtr(t)
    \/ \E t \in AppThreads : SubStore(t)
    \/ \E t \in AppThreads : SubIssue(t)
    \/ \E t \in AppThreads : SubIssueDangling(t)
    \/ \E t \in AppThreads : UnsubLock(t)
    \/ \E t \in AppThreads : UnsubWait(t)
    \/ \E t \in AppThreads : UnsubErase(t)
    \/ \E t \in AppThreads : PubLock(t)
    \/ \E t \in AppThreads : PubSend(t)
    \/ \E t \in AppThreads : BrokerAck(t)
    \/ \E t \in AppThreads : BrokerRefuse(t)
    \/ \E p \in Patterns : SubAck(p)
    \/ \E m \in PubTopics : PubAck(m)
    \/ ConnectionDrops
    \/ AutoReconnect
    \/ OnConnectionLost

Spec == Init /\ [][Next]_vars

(***************************************************************************)
(* Message delivery: one application thread registers, unregisters and     *)
(* publishes while the broker delivers messages to the callback thread.    *)
(***************************************************************************)
MainThread == "t1"
DispatchThreads == {MainThread, CbThread}

DispatchNext ==
    \/ CallIsConnected(MainThread)
    \/ CallSubscribe(MainThread)
    \/ CallUnsubscribe(MainThread)
    \/ CallPublish(MainThread)
    \/ \E t \in DispatchThreads : Return(t)
    \/ \E t \in DispatchThreads : IscLock(t)
    \/ \E t \in DispatchThreads : IscRead(t)
    \/ \E t \in DispatchThreads : SubTryLock(t)
    \/ \E t \in DispatchThreads : SubGetPtr(t)
    \/ \E t \in DispatchThreads : SubStore(t)
    \/ \E t \in DispatchThreads : SubStoreRelock(t)
    \/ \E t \in DispatchThreads : SubIssue(t)
    \/ \E t \in DispatchThreads : UnsubLock(t)
    \/ \E t \in DispatchThreads : UnsubWait(t)
    \/ \E t \in DispatchThreads : UnsubErase(t)
    \/ \E t \in DispatchThreads : PubLock(t)
    \/ \E t \in DispatchThreads : PubSend(t)
    \/ \E t \in DispatchThreads : BrokerAck(t)
    \/ \E p \in Patterns : SubAck(p)
    \/ \E m \in PubTopics : PubAck(m)
    \/ MessageArrives
    \/ DispLock
    \/ DispLoop
    \/ CallbackReturns
    \/ CallbackThrowsStd
    \/ CallbackEscapes
    \/ CallbackPublishes
    \/ CallbackSubscribes

DispatchSpec == Init /\ [][DispatchNext]_vars

(***************************************************************************)
(* Properties of subscribe() and publish()                                 *)
(***************************************************************************)
\* thread t takes a step that leaves program point l
Leaves(t, l) == pc[t] = l /\ pc'[t] /= l

\* C1: in subscribe() on a connected client the handler is stored in the
\* registry before the network subscribe request is issued, and subscribe
\* returns without waiting for the acknowledgment: a thread reaches the
\* statement that issues the request only by the step that stores its
\* handler under its pattern; a subscribe request is handed to the
\* transport only by a thread at that statement, for its own pattern; and
\* that same step takes the thread to its return (unless the process ends)
\* with the request still unacknowledged and no token waited on.
C1_StoredBeforeIssuedNoWait ==
    [][/\ \A t \in Threads :
             pc'[t] = "sub_issue" /\ pc[t] /= "sub_issue"
             => /\ pc[t] = "sub_store"
                /\ arg_topic[t] \in DOMAIN message_callbacks_'
                /\ message_callbacks_'[arg_topic[t]] = arg_callback[t]
       /\ \A p \in Patterns :
             p \in pendingSub' /\ p \notin pendingSub
             => \E t \in Threads :
                   /\ Leaves(t, "sub_issue")
                   /\ arg_topic[t] = p
                   /\ pc'[t] = "returning"
                   /\ ret'[t] = "ok"
       /\ \A t \in Threads :
             Leaves(t, "sub_issue") /\ pc'[t] /= "crashed"
             => /\ pc'[t] = "returning"
                /\ waitTok'[t] = "none"
                /\ client_ptr[t] = client_ /\ transportUp
                   => arg_topic[t] \in pendingSub' /\ ret'[t] = "ok"
       /\ \A t \in Threads : op'[t] = "subscribe" => waitTok'[t] = "none"
      ]_vars

\* C1 witness: a subscribe is returning success while its request is still
\* unacknowledged and its handler is in the registry
C1_Witness ==
    \E t \in AppThreads :
        /\ op[t] = "subscribe"
        /\ pc[t] = "returning"
        /\ ret[t] = "ok"
        /\ arg_topic[t] \in pendingSub
        /\ arg_topic[t] \in DOMAIN message_callbacks_
        /\ message_callbacks_[arg_topic[t]] = arg_callback[t]

\* C3: publish() hands the message to the transport and returns without
\* waiting for the acknowledgment, and never waits while it holds
\* connection_mutex_: the step that sends releases the lock, waits on no
\* token and goes to the return (unless the process ends), with the message
\* in the transport when there is a session; no thread in publish ever waits on a token; so no
\* isConnected() call waits for the lock behind a publish whose message is
\* in flight.
C3_PublishNeverWaitsUnderLock ==
    [][/\ \A t \in Threads :
             Leaves(t, "pub_send") /\ pc'[t] /= "crashed"
             => /\ connection_mutex_' /= t
                /\ waitTok'[t] = "none"
                /\ pc'[t] = "returning"
                /\ IF transportUp
                   THEN ret'[t] = "ok" /\ arg_topic[t] \in outbox'
                   ELSE ret'[t] = "exception" /\ outbox' = outbox
       /\ \A t \in Threads : op'[t] = "publish" => waitTok'[t] = "none"
       /\ \A t, u \in Threads :
             /\ t /= u
             /\ op'[t] = "isConnected" /\ pc'[t] = "isc_lock"
             /\ op'[u] = "publish" /\ connection_mutex_' = u
             => pc'[u] \in {"isc_read", "pub_send"} /\ waitTok'[u] = "none"
      ]_vars

\* C3 witness: a publish is returning success with its message still
\* unacknowledged in the transport, the lock is free, and another thread's
\* isConnected() is about to take it
C3_Witness ==
    \E t, u \in AppThreads :
        /\ op[t] = "publish" /\ pc[t] = "returning" /\ ret[t] = "ok"
        /\ arg_topic[t] \in outbox
        /\ connection_mutex_ = NoThread
        /\ op[u] = "isConnected" /\ pc[u] = "isc_lock"

(***************************************************************************)
(* Properties of isConnected(), of the fail-fast path and of reconnection  *)
(***************************************************************************)
\* C4: isConnected() is non-blocking in every interleaving with connect,
\* disconnect, subscribe, unsubscribe and publish on other threads: a
\* thread in isConnected() never waits for connection_mutex_ while its
\* owner waits for a network round trip.
C4_IsConnectedNeverWaitsForNetwork ==
    \A t, u \in Threads :
        ~(/\ t /= u
          /\ op[t] = "isConnected"
          /\ pc[t] = "isc_lock"
          /\ connection_mutex_ = u
          /\ waitTok[u] = "pending")

\* C6: after the connection was lost and automatic reconnect has restored
\* the session, the client is usable again without a further connect():
\* once the session is the one automatic reconnect established and the
\* connection-lost handler has run, the connected check of a call that is
\* the only call the application has made (isConnected() itself, or the
\* check publish, subscribe and unsubscribe fail fast on) reads true.
C6_UsableAfterAutoReconnect ==
    \A t \in Threads :
        (/\ calls = 1
         /\ pc[t] = "isc_read"
         /\ sessionBy = "reconnect"
         /\ transportUp
         /\ ~lostPending)
        => IsConnectedValue

\* C9: publish or subscribe invoked while the client is disconnected
\* returns a failure without blocking and without queuing: the call does
\* not wait for connection_mutex_ behind a thread that waits for a network
\* round trip, and when its connected check fails it returns the failure
\* with the registry, the subscribe requests and the messages handed to the
\* transport unchanged.
C9_FailFastWhileDisconnected ==
    [][/\ \A t, u \in Threads :
             ~(/\ t /= u
               /\ op'[t] \in {"publish", "subscribe"}
               /\ pc'[t] = "isc_lock"
               /\ ~IsConnectedValue'
               /\ connection_mutex_' = u
               /\ waitTok'[u] = "pending")
       /\ \A t \in Threads :
             (/\ op[t] \in {"publish", "subscribe"}
              /\ Leaves(t, "isc_read")
              /\ ~IsConnectedValue)
             => /\ pc'[t] = "returning"
                /\ ret'[t] = "not_connected"
                /\ UNCHANGED <<message_callbacks_, pendingSub, outbox>>
      ]_vars

\* C10: subscribe calls issued concurrently from several threads on a
\* connected client all return success and all their handlers end up in
\* the registry: when two subscribes are the only calls made on a client
\* whose connection has been up throughout, each of them returns success
\* with its pattern registered (with its own handler when the patterns
\* differ).
C10_ConcurrentSubscribesAllSucceed ==
    \A t, u \in AppThreads :
        (/\ t /= u
         /\ calls = 2
         /\ op[t] = "subscribe" /\ op[u] = "subscribe"
         /\ client_ = 1 /\ transportUp /\ drops = 0
         /\ pc[t] = "returning")
        => /\ ret[t] = "ok"
           /\ arg_topic[t] \in DOMAIN message_callbacks_
           /\ arg_topic[t] /= arg_topic[u]
              => message_callbacks_[arg_topic[t]] = arg_callback[t]

(***************************************************************************)
(* Properties of message dispatch                                          *)
(***************************************************************************)
\* dispatch of dispMsg can go no further: the loop is past the last
\* registry entry, or an exception has left onMessageArrived, or the
\* callback thread is blocked on a mutex it owns itself
DispatchOver ==
    \/ pc[CbThread] = "disp_loop" /\ todo = {}
    \/ pc[CbThread] = "escaped"
    \/ pc[CbThread] = "self_deadlock"

\* number of times the callback registered under pattern p was entered
InvokedCount(p) == Cardinality({i \in 1..Len(invoked) : invoked[i].pattern = p})

\* a callback has been entered and has not ended yet
HandlerRunning == invoked /= <<>> /\ invoked[Len(invoked)].outcome = "running"

\* C2: once subscribe(pattern, h) has returned success, h is invoked for
\* every incoming message whose topic matches, also one delivered before
\* the acknowledgment of the subscribe request; none is dropped: when
\* dispatch of a message is over, every matching pattern whose subscribe
\* had returned when the message arrived and that is still registered has
\* had its handler entered with the message, whether or not its request is
\* still unacknowledged.
C2_DeliveredOnceSubscribed ==
    DispatchOver
    => \A p \in settled \cap DOMAIN message_callbacks_ :
           topicMatches(dispMsg.topic, p)
           => \E i \in 1..Len(invoked) :
                 /\ invoked[i].pattern = p
                 /\ invoked[i].handler = message_callbacks_[p]
                 /\ invoked[i].topic = dispMsg.topic
                 /\ invoked[i].payload = dispMsg.payload

\* C5: a handler is entered with callbacks_mutex_ and connection_mutex_
\* released, so a handler that calls back into publish or subscribe on the
\* client completes and never deadlocks against the dispatch path.
C5_HandlerEnteredUnlocked ==
    /\ pc[CbThread] = "in_callback"
       => callbacks_mutex_ /= CbThread /\ connection_mutex_ /= CbThread
    /\ HandlerRunning => pc[CbThread] /= "self_deadlock"

\* C7: dispatch is fan-out: for every message and every registry state the
\* handler of each registered pattern that matches the topic is invoked
\* exactly once with that topic and payload, and no handler of a
\* non-matching pattern is invoked.
C7_FanOutExactlyOnce ==
    /\ \A i \in 1..Len(invoked) :
          /\ invoked[i].pattern \in DOMAIN message_callbacks_
          /\ invoked[i].handler = message_callbacks_[invoked[i].pattern]
          /\ topicMatches(dispMsg.topic, invoked[i].pattern)
          /\ invoked[i].topic = dispMsg.topic
          /\ invoked[i].payload = dispMsg.payload
          /\ InvokedCount(invoked[i].pattern) = 1
    /\ DispatchOver
       => \A p \in DOMAIN message_callbacks_ :
              topicMatches(dispMsg.topic, p) => InvokedCount(p) = 1

\* C8: an error raised by a handler during dispatch is caught at the
\* dispatch boundary: it does not leave onMessageArrived into the
\* transport's thread, and every other handler whose pattern matches the
\* message is still invoked.
C8_HandlerErrorContained ==
    /\ pc[CbThread] /= "escaped"
    /\ \A i \in 1..Len(invoked) : invoked[i].outcome /= "escaped"
    /\ (/\ DispatchOver
        /\ \E i \in 1..Len(invoked) : invoked[i].outcome = "caught")
       => \A p \in DOMAIN message_callbacks_ :
              topicMatches(dispMsg.topic, p) => InvokedCount(p) >= 1

(***************************************************************************)
(* topicMatches() on its own: every topic against every pattern            *)
(***************************************************************************)
\* number of '/'-delimited levels of the topics and patterns tried
MaxLevels == 3

\* contents of one level of a topic: empty, literal, or longer literal
TopicLevels == {<<>>, <<"a">>, <<"b">>, <<"a", "b">>}

\* contents of one level of a pattern: the same, a wildcard, or a wildcard
\* character inside a longer level
PatternLevels == TopicLevels \cup {<<"+">>, <<"#">>, <<"a", "+">>}

\* the sequences of 1..n levels over L
LevelSeqs(L, n) == UNION {[1..k -> L] : k \in 1..n}

RECURSIVE Join(_)
\* the string whose '/'-delimited levels are ls
Join(ls) ==
    IF Len(ls) = 1 THEN ls[1]
    ELSE ls[1] \o <<"/">> \o Join(Tail(ls))

\* topics the transport can deliver and patterns subscribe() can be given:
\* MQTT topic names and topic filters have at least one character
MatchTopics == {Join(ls) : ls \in LevelSeqs(TopicLevels, MaxLevels)} \ {<<>>}
MatchPatterns == {Join(ls) : ls \in LevelSeqs(PatternLevels, MaxLevels)} \ {<<>>}

\* a topic and a pattern are about to be matched
MatchInit ==
    /\ MqttInit
    /\ CollectorIdle
    /\ UpdateIdle
    /\ ConvIdle
    /\ BridgeIdle
    /\ OrderIdle
    /\ HandlerIdle
    /\ m_topic \in MatchTopics
    /\ m_pattern \in MatchPatterns
    /\ m_result = "none"

\* bool r = topicMatches(topic, pattern)
TopicMatches ==
    /\ m_result = "none"
    /\ m_result' = IF topicMatches(m_topic, m_pattern) THEN "true" ELSE "false"
    /\ UNCHANGED <<m_topic, m_pattern>>
    /\ UNCHANGED matchRest

MatchNext == TopicMatches

MatchSpec == MatchInit /\ [][MatchNext]_vars

(***************************************************************************)
(* Properties of topicMatches()                                            *)
(***************************************************************************)
\* the levels of an MQTT topic or pattern: the substrings between the '/'
\* separators, empty ones and a trailing one included
Levels(str) == SplitAll(str, <<>>, <<>>)

\* the pattern's last level is the multi-level wildcard
EndsInHash(pattern) == Levels(pattern)[Len(Levels(pattern))] = <<"#">>

\* level i of the pattern accepts level i of the topic
LevelMatches(tl, pl) == pl = <<"+">> \/ pl = tl

\* C11: for every pattern without a multi-level wildcard that has the
\* single-level wildcard '+' at level i, and every topic with the same
\* number of levels that differs from the pattern only at level i, whatever
\* that level's content, topicMatches(topic, pattern) is true.
C11_PlusMatchesAnyOneLevel ==
    m_result /= "none"
    => LET tl == Levels(m_topic)
           pl == Levels(m_pattern)
       IN (/\ \A j \in 1..Len(pl) : pl[j] /= <<"#">>
           /\ Len(tl) = Len(pl)
           /\ \E i \in 1..Len(pl) :
                 /\ pl[i] = <<"+">>
                 /\ \A j \in (1..Len(pl)) \ {i} : tl[j] = pl[j])
          => m_result = "true"

\* C12: for every pattern whose final level is '#', a topic matches iff it
\* has at least as many levels as the pattern has before '#' and each of
\* those leading levels matches (literal equality or '+'), however many
\* trailing levels follow, zero included.
C12_HashMatchesAnyTail ==
    (m_result /= "none" /\ EndsInHash(m_pattern))
    => LET tl == Levels(m_topic)
           pl == Levels(m_pattern)
       IN m_result = "true"
          <=> /\ Len(tl) >= Len(pl) - 1
              /\ \A i \in 1..(Len(pl) - 1) : LevelMatches(tl[i], pl[i])

\* C13: for a pattern that does not end in '#', topicMatches is true only
\* if topic and pattern have exactly the same number of '/'-delimited
\* levels (empty and trailing levels counted) and every non-'+' pattern
\* level equals the corresponding topic level verbatim; a wildcard
\* character inside a longer level is no wildcard.
C13_ExactLevelsWithoutHash ==
    (m_result = "true" /\ ~EndsInHash(m_pattern))
    => LET tl == Levels(m_topic)
           pl == Levels(m_pattern)
       IN /\ Len(tl) = Len(pl)
          /\ \A i \in 1..Len(pl) : LevelMatches(tl[i], pl[i])

(***************************************************************************)
(* Properties of unsubscribe()                                             *)
(***************************************************************************)
\* C14: after unsubscribe(pattern) returns success the registry holds no
\* entry for pattern, so no later message is dispatched to the handler that
\* was registered under it, and the entries of all other patterns are
\* unchanged: unsubscribe returns success only by the step that erases;
\* that step removes the pattern's entry and nothing else; while the call
\* is returning success the pattern is not in the registry; and dispatch
\* enters only callbacks of patterns that are in the registry.
C14_UnsubscribeRemovesOnlyItsEntry ==
    [][/\ \A t \in Threads :
             (op[t] = "unsubscribe" /\ ret[t] /= "ok" /\ ret'[t] = "ok")
             => Leaves(t, "unsub_erase")
       /\ \A t \in Threads :
             (Leaves(t, "unsub_erase") /\ pc'[t] /= "crashed")
             => /\ pc'[t] = "returning"
                /\ ret'[t] = "ok"
                /\ DOMAIN message_callbacks_' = DOMAIN message_callbacks_ \ {arg_topic[t]}
                /\ \A p \in DOMAIN message_callbacks_' :
                      message_callbacks_'[p] = message_callbacks_[p]
       /\ \A t \in Threads :
             (op'[t] = "unsubscribe" /\ ret'[t] = "ok")
             => arg_topic'[t] \notin DOMAIN message_callbacks_'
       /\ (pc'[CbThread] = "in_callback" /\ pc[CbThread] /= "in_callback")
          => /\ cur_key' \in DOMAIN message_callbacks_'
             /\ invoked'[Len(invoked')].pattern = cur_key'
      ]_vars

\* C14 witness: a pattern that was registered when a matching message
\* arrived has been removed by an unsubscribe that is returning success, and
\* the dispatch of the message ends without any callback entered
C14_Witness ==
    /\ op[MainThread] = "unsubscribe"
    /\ arg_topic[MainThread] \in settled
    /\ pc[MainThread] = "returning"
    /\ ret[MainThread] = "ok"
    /\ pc[CbThread] = "disp_loop" /\ todo = {}
    /\ topicMatches(dispMsg.topic, arg_topic[MainThread])
    /\ invoked = <<>>

(***************************************************************************)
(* CollectorService: the buffer, the saver thread, start() and stop()      *)
(***************************************************************************)
MaxClock == 120
MaxUpdates == 4

\* seconds the saver sleeps between two ticks when it is not stopped
SleepSeconds == 60

SaverThread == "saver"
ControlThread == "control"

SaveIntervals == {60, 120}
Payloads == {<<"1", "0", "0">>, <<"O", "L">>}

\* the levels of the state topic of a sensor of a device
StateTopic(d, n) == <<"homeassistant", "sensor", d, n, "state">>

\* the messages delivered to the collector's handler, as <<levels of the
\* topic, payload>>: the two required fields of both devices, one more
\* field of one device, and one topic that is too short
CollectorMessages ==
    {<<StateTopic(d, n), p>> : d \in MqttDeviceIds, n \in {"battery_charge", "status"},
                               p \in Payloads}
        \cup {<<StateTopic(D1, "battery_runtime"), <<"1", "0", "0">>>>}
        \cup {<<<<"homeassistant", "sensor", D1, "status">>, <<"O", "L">>>>}

\* main() constructs the collector after its connect() of the MQTT client,
\* taken here to have succeeded
CollectorInit ==
    /\ MqttInit
    /\ connected_
    /\ MatchIdle
    /\ UpdateIdle
    /\ ConvIdle
    /\ BridgeIdle
    /\ OrderIdle
    /\ HandlerIdle
    /\ \E interval \in SaveIntervals : CollectorConstructed(interval)

\* one call of DatabaseService::insertUpsMetrics
Insertion(device_identifier, success, path) ==
    [device |-> device_identifier, data |-> device_data_[device_identifier],
     success |-> success, path |-> path, at |-> clock]

\* saveDeviceData handing every buffered record to the database, complete
\* or not
saveDeviceDataUngated(device_identifier, path) ==
    IF device_identifier \notin DOMAIN device_data_
    THEN UNCHANGED <<last_save_times_, last_save_time_, sink>>
    ELSE \E success \in BOOLEAN :
            /\ sink' = Append(sink, Insertion(device_identifier, success, path))
            /\ IF success
               THEN /\ last_save_times_' = MapPut(last_save_times_, device_identifier, clock)
                    /\ last_save_time_' = clock
               ELSE UNCHANGED <<last_save_times_, last_save_time_>>

\* CollectorService::saveDeviceData, called with data_mutex_ held; the
\* insert succeeds or fails as the database decides
saveDeviceData(device_identifier, path) ==
    IF device_identifier \notin DOMAIN device_data_
       \/ ~isValid(device_data_[device_identifier])
    THEN UNCHANGED <<last_save_times_, last_save_time_, sink>>
    ELSE \E success \in BOOLEAN :
            /\ sink' = Append(sink, Insertion(device_identifier, success, path))
            /\ IF success
               THEN /\ last_save_times_' = MapPut(last_save_times_, device_identifier, clock)
                    /\ last_save_time_' = clock
               ELSE UNCHANGED <<last_save_times_, last_save_time_>>

\* onMqttMessage creating the record of a new device without a last save time
onMqttMessageNoLastSave(topic, payload) ==
    LET mqtt_device_id == parseTopic(topic)[1]
        sensor_name == parseTopic(topic)[2]
        device_identifier == getDbIdentifier(mqtt_device_id)
        known == device_identifier \in DOMAIN device_data_
        data == IF known THEN device_data_[device_identifier]
                ELSE [UpsData EXCEPT !.device_id = mqtt_device_id,
                                     !.timestamp = clock]
    IN IF mqtt_device_id = <<>> \/ sensor_name = ""
       THEN UNCHANGED <<device_data_, last_save_times_>>
       ELSE /\ device_data_' = MapPut(device_data_, device_identifier,
                                  updateFieldFromMqtt(data, sensor_name, payload, clock))
            /\ UNCHANGED last_save_times_

\* CollectorService::onMqttMessage, the body of the handler the collector
\* subscribes with; it runs with data_mutex_ held from the look-up to the end
onMqttMessage(topic, payload) ==
    LET mqtt_device_id == parseTopic(topic)[1]
        sensor_name == parseTopic(topic)[2]
        device_identifier == getDbIdentifier(mqtt_device_id)
        known == device_identifier \in DOMAIN device_data_
        data == IF known THEN device_data_[device_identifier]
                ELSE [UpsData EXCEPT !.device_id = mqtt_device_id,
                                     !.timestamp = clock]
    IN IF mqtt_device_id = <<>> \/ sensor_name = ""
       THEN UNCHANGED <<device_data_, last_save_times_>>
       ELSE /\ device_data_' = MapPut(device_data_, device_identifier,
                                  updateFieldFromMqtt(data, sensor_name, payload, clock))
            /\ last_save_times_' = IF known THEN last_save_times_
                                   ELSE MapPut(last_save_times_, device_identifier, clock)

\* a message for the collector is dispatched to its handler
OnMqttMessage ==
    /\ updates < MaxUpdates
    /\ data_mutex_ = NoThread
    /\ \E message \in CollectorMessages : onMqttMessage(message[1], message[2])
    /\ updates' = updates + 1
    /\ UNCHANGED <<running_, save_interval_seconds_, last_save_time_, data_mutex_, clock,
                   s_pc, s_now, s_todo, c_pc, c_todo, sink, c_started>>
    /\ UNCHANGED collectorRest

\* CollectorService::start on a collector that is not running; main() calls
\* it once, after constructing the collector
Start ==
    /\ c_pc = "idle"
    /\ ~running_
    /\ ~c_started
    /\ running_' = TRUE
    /\ s_pc' = "check"
    /\ c_started' = TRUE
    /\ UNCHANGED <<save_interval_seconds_, device_data_, last_save_times_, last_save_time_,
                   data_mutex_, clock, s_now, s_todo, c_pc, c_todo, sink, updates>>
    /\ UNCHANGED collectorRest

\* scheduledSaveLoop: while (running_) { auto now = system_clock::now();
SaverCheck ==
    /\ s_pc = "check"
    /\ IF running_
       THEN s_pc' = "lock" /\ s_now' = clock
       ELSE s_pc' = "exited" /\ UNCHANGED s_now
    /\ UNCHANGED <<running_, save_interval_seconds_, device_data_, last_save_times_,
                   last_save_time_, data_mutex_, clock, s_todo, c_pc, c_todo, sink,
                   c_started, updates>>
    /\ UNCHANGED collectorRest

\* scheduledSaveLoop: std::lock_guard lock(data_mutex_); for (... : device_data_)
SaverLock ==
    /\ s_pc = "lock"
    /\ data_mutex_ = NoThread
    /\ data_mutex_' = SaverThread
    /\ s_todo' = DOMAIN device_data_
    /\ s_pc' = "visit"
    /\ UNCHANGED <<running_, save_interval_seconds_, device_data_, last_save_times_,
                   last_save_time_, clock, s_now, c_pc, c_todo, sink, c_started, updates>>
    /\ UNCHANGED collectorRest

\* a test that lets a device wait until the interval is exceeded
DueStrict(elapsed) == elapsed > save_interval_seconds_

\* elapsed >= save_interval_seconds_
Due(elapsed) == elapsed >= save_interval_seconds_

\* a pass that ends at the first device it does not save
SaverVisitUntilNotSaved ==
    /\ s_pc = "visit"
    /\ s_todo /= {}
    /\ LET device_id == MinKey(s_todo)
       IN /\ IF device_id \notin DOMAIN last_save_times_
             THEN saveDeviceData(device_id, "tick")
             ELSE IF Due(s_now - last_save_times_[device_id])
             THEN saveDeviceData(device_id, "tick")
             ELSE UNCHANGED <<last_save_times_, last_save_time_, sink>>
          /\ s_todo' = IF Len(sink') > Len(sink) /\ sink'[Len(sink')].success
                       THEN s_todo \ {device_id}
                       ELSE {}
    /\ UNCHANGED <<running_, save_interval_seconds_, device_data_, data_mutex_, clock,
                   s_pc, s_now, c_pc, c_todo, c_started, updates>>
    /\ UNCHANGED collectorRest

\* scheduledSaveLoop: the body of the for loop, for the next device of the map
SaverVisit ==
    /\ s_pc = "visit"
    /\ s_todo /= {}
    /\ LET device_id == MinKey(s_todo)
       IN /\ s_todo' = s_todo \ {device_id}
          /\ IF device_id \notin DOMAIN last_save_times_
             THEN saveDeviceData(device_id, "tick")
             ELSE IF Due(s_now - last_save_times_[device_id])
             THEN saveDeviceData(device_id, "tick")
             ELSE UNCHANGED <<last_save_times_, last_save_time_, sink>>
    /\ UNCHANGED <<running_, save_interval_seconds_, device_data_, data_mutex_, clock,
                   s_pc, s_now, c_pc, c_todo, c_started, updates>>
    /\ UNCHANGED collectorRest

\* scheduledSaveLoop: the end of the locked block
SaverUnlock ==
    /\ s_pc = "visit"
    /\ s_todo = {}
    /\ data_mutex_' = NoThread
    /\ s_pc' = "sleep"
    /\ UNCHANGED <<running_, save_interval_seconds_, device_data_, last_save_times_,
                   last_save_time_, clock, s_now, s_todo, c_pc, c_todo, sink, c_started,
                   updates>>
    /\ UNCHANGED collectorRest

\* scheduledSaveLoop: for (i = 0; i < 60 && running_; ++i) sleep_for(1s).
\* While the collector runs the loop sleeps its sixty seconds; once running_
\* is false it ends at its next check.  The iteration of the while loop ends
\* here, and its local now with it.
SaverSleep ==
    /\ s_pc = "sleep"
    /\ IF running_
       THEN /\ clock + SleepSeconds <= MaxClock
            /\ clock' = clock + SleepSeconds
       ELSE UNCHANGED clock
    /\ s_pc' = "check"
    /\ s_now' = 0
    /\ UNCHANGED <<running_, save_interval_seconds_, device_data_, last_save_times_,
                   last_save_time_, data_mutex_, s_todo, c_pc, c_todo, sink,
                   c_started, updates>>
    /\ UNCHANGED collectorRest

\* CollectorService::stop on a running collector: running_ = false
StopBegin ==
    /\ c_pc = "idle"
    /\ running_
    /\ running_' = FALSE
    /\ c_pc' = "stop_join"
    /\ UNCHANGED <<save_interval_seconds_, device_data_, last_save_times_, last_save_time_,
                   data_mutex_, clock, s_pc, s_now, s_todo, c_todo, sink, c_started, updates>>
    /\ UNCHANGED collectorRest

\* stop: saver_thread_.join()
StopJoin ==
    /\ c_pc = "stop_join"
    /\ s_pc = "exited"
    /\ s_pc' = "none"
    /\ c_pc' = "stop_lock"
    /\ UNCHANGED <<running_, save_interval_seconds_, device_data_, last_save_times_,
                   last_save_time_, data_mutex_, clock, s_now, s_todo, c_todo, sink,
                   c_started, updates>>
    /\ UNCHANGED collectorRest

\* stop: std::lock_guard lock(data_mutex_); for (... : device_data_)
StopLock ==
    /\ c_pc = "stop_lock"
    /\ data_mutex_ = NoThread
    /\ data_mutex_' = ControlThread
    /\ c_todo' = DOMAIN device_data_
    /\ c_pc' = "stop_flush"
    /\ UNCHANGED <<running_, save_interval_seconds_, device_data_, last_save_times_,
                   last_save_time_, clock, s_pc, s_now, s_todo, sink, c_started, updates>>
    /\ UNCHANGED collectorRest

\* a shutdown that walks the map without saving anything
StopFlushSkipped ==
    /\ c_pc = "stop_flush"
    /\ c_todo /= {}
    /\ c_todo' = c_todo \ {MinKey(c_todo)}
    /\ UNCHANGED <<last_save_times_, last_save_time_, sink>>
    /\ UNCHANGED <<running_, save_interval_seconds_, device_data_, data_mutex_, clock,
                   s_pc, s_now, s_todo, c_pc, c_started, updates>>
    /\ UNCHANGED collectorRest

\* stop: saveDeviceData(device_id) for the next device of the map
StopFlush ==
    /\ c_pc = "stop_flush"
    /\ c_todo /= {}
    /\ LET device_id == MinKey(c_todo)
       IN /\ c_todo' = c_todo \ {device_id}
          /\ saveDeviceData(device_id, "stop")
    /\ UNCHANGED <<running_, save_interval_seconds_, device_data_, data_mutex_, clock,
                   s_pc, s_now, s_todo, c_pc, c_started, updates>>
    /\ UNCHANGED collectorRest

\* stop: the end of the flush; the lock is released and stop returns
StopReturn ==
    /\ c_pc = "stop_flush"
    /\ c_todo = {}
    /\ data_mutex_' = NoThread
    /\ c_pc' = "idle"
    /\ UNCHANGED <<running_, save_interval_seconds_, device_data_, last_save_times_,
                   last_save_time_, clock, s_pc, s_now, s_todo, c_todo, sink, c_started,
                   updates>>
    /\ UNCHANGED collectorRest

CollectorNext ==
    \/ OnMqttMessage
    \/ Start
    \/ SaverCheck
    \/ SaverLock
    \/ SaverVisit
    \/ SaverUnlock
    \/ SaverSleep
    \/ StopBegin
    \/ StopJoin
    \/ StopLock
    \/ StopFlush
    \/ StopReturn

CollectorSpec == CollectorInit /\ [][CollectorNext]_vars

(***************************************************************************)
(* UpsData::updateFieldFromMqtt on its own: updates merged into one record *)
(***************************************************************************)
MaxMerges == 3

UpdateSensorNames ==
    {"battery_charge", "battery_runtime", "status", "power_failure", "no_such_sensor"}

UpdateValues ==
    {<<"1", "0", "0">>, <<"7", "x">>, <<"-", "5">>, <<"1">>, <<"O", "L">>, <<"O", "B">>, <<>>}

\* data.updateFieldFromMqtt(sensor_name, value), a second after the last call
UpdateField ==
    /\ u_now < MaxMerges
    /\ \E sensor_name \in UpdateSensorNames, value \in UpdateValues :
          /\ u_sensor_name' = sensor_name
          /\ u_value' = value
          /\ u_record' = updateFieldFromMqtt(u_record, sensor_name, value, u_now + 1)
    /\ u_now' = u_now + 1
    /\ UNCHANGED updateRest

UpdateNext == UpdateField

UpdateSpec == Init /\ [][UpdateNext]_vars

(***************************************************************************)
(* CollectorService::onMqttMessage on its own: any registry, any topic     *)
(***************************************************************************)
MaxHandled == 3

\* device identifiers found in topics: two configured ones and one more
TopicDeviceIds == {D1, D2, DB1}

\* the registries UPS_DB_MAPPING can give: any of the configured devices
\* mapped to a database identifier
Registries == UNION {[S -> {DB1, D2}] : S \in SUBSET {D1, D2}}

\* topics by their levels: state topics, and topics with a level missing,
\* with one level more, and with an empty last level
HandlerTopics ==
    {StateTopic(d, n) : d \in TopicDeviceIds, n \in {"battery_charge", "status"}}
        \cup {<<"homeassistant", "sensor", D1, "status">>,
              <<"homeassistant", "sensor", D1, "status", "">>,
              <<"homeassistant", "sensor", D1, "status", "state", "set">>,
              <<"homeassistant", "sensor", D1, "status", "state", "">>}

HandlerInit ==
    /\ MqttInit
    /\ connected_
    /\ MatchIdle
    /\ UpdateIdle
    /\ ConvIdle
    /\ BridgeIdle
    /\ OrderIdle
    /\ CollectorIdle
    /\ mqtt_to_db_map_ \in Registries
    /\ MapperLoaded
    /\ h_topic = <<>>

\* onMqttMessage(topic, payload)
HandleMessage ==
    /\ updates < MaxHandled
    /\ \E topic \in HandlerTopics, payload \in Payloads :
          /\ h_topic' = topic
          /\ onMqttMessage(topic, payload)
    /\ updates' = updates + 1
    /\ UNCHANGED <<running_, save_interval_seconds_, last_save_time_, data_mutex_, clock,
                   s_pc, s_now, s_todo, c_pc, c_todo, sink, c_started>>
    /\ UNCHANGED <<mqttVars, matchVars, updateVars, mqtt_to_db_map_, mapperVars, convVars,
                   bridgeVars, nr_pc, orderVars>>

HandlerNext == HandleMessage

HandlerSpec == HandlerInit /\ [][HandlerNext]_vars

(***************************************************************************)
(* UpsData::fromNutVariables and UpsData::toMqttMessages on their own: any *)
(* snapshot of NUT variables, converted and turned into messages           *)
(***************************************************************************)
\* the NUT variables of the fields the model follows
NutNames ==
    {"battery.charge", "battery.runtime", "battery.charge.low", "battery.type",
     "ups.status", "ups.delay.shutdown"}

\* values upsc can print for a variable; getAllVariables stores no empty value
NutValues(key) ==
    CASE key = "battery.charge" -> {<<"1", "0", "0">>, <<"x">>}
      [] key = "battery.runtime" -> {<<"9", "0">>}
      [] key = "battery.charge.low" -> {<<"1", "0">>}
      [] key = "battery.type" -> {<<"P", "b", "A", "c">>}
      [] key = "ups.status" -> {<<"O", "L">>, <<"O", "B">>}
      [] key = "ups.delay.shutdown" -> {<<"2", "0">>}

\* what NutClient::getAllVariables can return: any of the variables, each
\* with one of its values
Snapshots ==
    UNION {{f \in [S -> UNION {NutValues(k) : k \in NutNames}] :
              \A k \in S : f[k] \in NutValues(k)} : S \in SUBSET NutNames}

ConvInit ==
    /\ MqttInit
    /\ connected_
    /\ MatchIdle
    /\ CollectorIdle
    /\ UpdateIdle
    /\ HandlerIdle
    /\ BridgeIdle
    /\ OrderIdle
    /\ n_vars \in Snapshots
    /\ n_data = BridgeUpsData
    /\ n_messages = NullOpt

\* UpsData ups_data = UpsData::fromNutVariables(device_id_, variables)
FromNutVariables ==
    /\ n_data.timestamp = 0
    /\ n_data' = fromNutVariables(BridgeDevice, n_vars, 1)
    /\ UNCHANGED <<n_vars, n_messages>>
    /\ UNCHANGED convRest

\* auto mqtt_messages = ups_data.toMqttMessages()
ToMqttMessages ==
    /\ n_data.timestamp /= 0
    /\ n_messages = NullOpt
    /\ n_messages' = Some(toMqttMessages(n_data))
    /\ UNCHANGED <<n_vars, n_data>>
    /\ UNCHANGED convRest

ConvNext == FromNutVariables \/ ToMqttMessages

ConvSpec == ConvInit /\ [][ConvNext]_vars

(***************************************************************************)
(* NutBridgeService: start() and stop(), the worker thread (runLoop and    *)
(* pollAndPublish), NutClient::connect with its backoff, the manual        *)
(* republish, and the broker connection dropping and coming back           *)
(***************************************************************************)
\* consecutive failed connects followed
MaxAttempts == 33
\* calls of republishDiscovery followed
MaxRepublish == 2

\* NutClient::MAX_RECONNECT_BACKOFF_SEC
MAX_RECONNECT_BACKOFF_SEC == 64

\* std::numeric_limits<int>::min() of a 32-bit int
INT_MIN == (0 - 2147483647) - 1

\* 1 << k on a 32-bit int: 2^k while it fits; 1 << 31 is the sign bit; a
\* shift by 32 or more is undefined, and the builds in use either shift by
\* k mod 32 or give 0
ShiftLeft1(k) ==
    IF k < 31 THEN {2 ^ k}
    ELSE IF k = 31 THEN {INT_MIN}
    ELSE {0, IF k % 32 = 31 THEN INT_MIN ELSE 2 ^ (k % 32)}

\* std::min
std_min(a, b) == IF b < a THEN b ELSE a

\* NutClient::isConnected()
nutIsConnected == nut_connected_ /\ ups_conn_ /= 0

\* NutClient::connect() whose failure path deletes the handle and leaves the
\* pointer as it is
nutConnectKeepsPointer(ok) ==
    IF nut_connected_ /\ ups_conn_ /= 0 THEN UNCHANGED nutVars
    ELSE IF ok
    THEN /\ ups_conn_' = 1
         /\ nut_live' = nut_live + 1
         /\ nut_connected_' = TRUE
         /\ reconnect_attempts_' = 0
         /\ UNCHANGED backoff_sec
    ELSE /\ reconnect_attempts_ < MaxAttempts
         /\ ups_conn_' = 1
         /\ nut_live' = nut_live
         /\ nut_connected_' = FALSE
         /\ \E shifted \in ShiftLeft1(reconnect_attempts_) :
               backoff_sec' = Some(std_min(shifted, MAX_RECONNECT_BACKOFF_SEC))
         /\ reconnect_attempts_' = reconnect_attempts_ + 1

\* NutClient::connect(); ok is whether upscli_connect succeeds.  ups_conn_ =
\* new UPSCONN_t overwrites the pointer whatever it held; on failure the
\* object is deleted and the pointer set to nullptr.  The sleep of
\* backoff_sec seconds is part of the call.
nutConnect(ok) ==
    IF nut_connected_ /\ ups_conn_ /= 0 THEN UNCHANGED nutVars
    ELSE IF ok
    THEN /\ ups_conn_' = 1
         /\ nut_live' = nut_live + 1
         /\ nut_connected_' = TRUE
         /\ reconnect_attempts_' = 0
         /\ UNCHANGED backoff_sec
    ELSE /\ reconnect_attempts_ < MaxAttempts
         /\ ups_conn_' = 0
         /\ nut_live' = nut_live
         /\ nut_connected_' = FALSE
         /\ \E shifted \in ShiftLeft1(reconnect_attempts_) :
               backoff_sec' = Some(std_min(shifted, MAX_RECONNECT_BACKOFF_SEC))
         /\ reconnect_attempts_' = reconnect_attempts_ + 1

\* NutClient::disconnect()
nutDisconnect ==
    /\ ups_conn_' = 0
    /\ nut_live' = IF ups_conn_ /= 0 THEN nut_live - 1 ELSE nut_live
    /\ nut_connected_' = FALSE
    /\ UNCHANGED <<reconnect_attempts_, backoff_sec>>

\* what getAllVariables returns to the bridge in the model: nothing, one of
\* the two required variables, or both
BridgeSnapshots ==
    {snapshot \in Snapshots :
        /\ DOMAIN snapshot \subseteq {"battery.charge", "ups.status"}
        /\ \A k \in DOMAIN snapshot : snapshot[k] \in {<<"1", "0", "0">>, <<"O", "L">>}}

\* the bridge as constructed; the broker connected by main() or not at all
BridgeInit ==
    /\ MqttInit
    /\ MatchIdle
    /\ CollectorIdle
    /\ UpdateIdle
    /\ HandlerIdle
    /\ ConvIdle
    /\ BridgeIdle
    /\ OrderIdle

\* NutBridgeService::start(), called once
BridgeStart ==
    /\ b_pc = "new"
    /\ ~bridge_running_
    /\ bridge_running_' = TRUE
    /\ w_pc' = "connect"
    /\ b_pc' = "started"
    /\ UNCHANGED <<discovery_published_, disc_epoch, nutVars, pollVars, cycleVars,
                   republishVars, stampVars>>
    /\ UNCHANGED <<mqttVars, bridgeRest>>

\* runLoop: the nut_client_->connect() before the loop
WorkerConnect ==
    /\ w_pc = "connect"
    /\ \E ok \in BOOLEAN : nutConnect(ok)
    /\ w_pc' = "loop"
    /\ UNCHANGED <<bridge_running_, discovery_published_, disc_epoch, pollVars,
                   cycleVars, b_pc, republishVars, stampVars>>
    /\ UNCHANGED <<mqttVars, bridgeRest>>

\* a loop that begins its next pass whatever running_ holds: while (true)
WorkerLoopForever ==
    /\ w_pc = "loop"
    /\ w_pc' = "ensure"
    /\ w_vars' = <<>>
    /\ w_data' = BridgeUpsData
    /\ cycle_pub' = {}
    /\ cycle_end' = "none"
    /\ bus_back' = IF /\ transportUp
                      /\ sessionBy = "reconnect"
                      /\ (disc_epoch = NullOpt \/ Deref(disc_epoch) < drops)
                   THEN Some(drops)
                   ELSE NullOpt
    /\ UNCHANGED <<bridge_running_, discovery_published_, disc_epoch, nutVars, w_todo,
                   w_all_success, b_pc, republishVars, stampVars>>
    /\ UNCHANGED <<mqttVars, bridgeRest>>

\* while (running_): a pass of the loop begins, or the loop ends
WorkerLoop ==
    /\ w_pc = "loop"
    /\ IF bridge_running_
       THEN /\ w_pc' = "ensure"
            /\ w_vars' = <<>>
            /\ w_data' = BridgeUpsData
            /\ cycle_pub' = {}
            /\ cycle_end' = "none"
            /\ bus_back' = IF /\ transportUp
                              /\ sessionBy = "reconnect"
                              /\ (disc_epoch = NullOpt \/ Deref(disc_epoch) < drops)
                           THEN Some(drops)
                           ELSE NullOpt
       ELSE /\ w_pc' = "exit"
            /\ UNCHANGED <<w_vars, w_data, cycleVars>>
    /\ UNCHANGED <<bridge_running_, discovery_published_, disc_epoch, nutVars, w_todo,
                   w_all_success, b_pc, republishVars, stampVars>>
    /\ UNCHANGED <<mqttVars, bridgeRest>>

\* if (!nut_client_->isConnected()) { if (!nut_client_->connect()) {
\* sleep_for(5 s); continue; } }
WorkerEnsure ==
    /\ w_pc = "ensure"
    /\ IF nutIsConnected
       THEN /\ w_pc' = "poll"
            /\ UNCHANGED <<nutVars, cycle_end>>
       ELSE \E ok \in BOOLEAN :
               /\ nutConnect(ok)
               /\ w_pc' = IF ok THEN "poll" ELSE "loop"
               /\ cycle_end' = IF ok THEN cycle_end ELSE "connect_failed"
    /\ UNCHANGED <<bridge_running_, discovery_published_, disc_epoch, pollVars,
                   cycle_pub, bus_back, b_pc, republishVars, stampVars>>
    /\ UNCHANGED <<mqttVars, bridgeRest>>

\* pollAndPublish up to the discovery block, with the completeness check
\* left out
WorkerPollUngated ==
    /\ w_pc = "poll"
    /\ \E snapshot \in BridgeSnapshots :
          /\ w_vars' = snapshot
          /\ IF snapshot = <<>>
             THEN /\ cycle_end' = "empty"
                  /\ w_pc' = "sleep"
                  /\ UNCHANGED w_data
             ELSE /\ w_data' = fromNutVariables(BridgeDevice, snapshot, 1)
                  /\ w_pc' = "discovery"
                  /\ UNCHANGED cycle_end
    /\ UNCHANGED <<bridge_running_, discovery_published_, disc_epoch, nutVars, w_todo,
                   w_all_success, cycle_pub, bus_back, b_pc, republishVars, stampVars>>
    /\ UNCHANGED <<mqttVars, bridgeRest>>

\* pollAndPublish up to the discovery block: getAllVariables, the check for
\* an empty result, fromNutVariables and the isValid check
WorkerPoll ==
    /\ w_pc = "poll"
    /\ \E snapshot \in BridgeSnapshots :
          /\ w_vars' = snapshot
          /\ IF snapshot = <<>>
             THEN /\ cycle_end' = "empty"
                  /\ w_pc' = "sleep"
                  /\ UNCHANGED w_data
             ELSE /\ w_data' = fromNutVariables(BridgeDevice, snapshot, 1)
                  /\ IF ~isValid(w_data')
                     THEN /\ cycle_end' = "incomplete"
                          /\ w_pc' = "sleep"
                     ELSE /\ w_pc' = "discovery"
                          /\ UNCHANGED cycle_end
    /\ UNCHANGED <<bridge_running_, discovery_published_, disc_epoch, nutVars, w_todo,
                   w_all_success, cycle_pub, bus_back, b_pc, republishVars, stampVars>>
    /\ UNCHANGED <<mqttVars, bridgeRest>>

\* the discovery block publishing the discovery payload in every pass in
\* which the client is connected
WorkerDiscoveryEveryPass ==
    /\ w_pc = "discovery"
    /\ IF IsConnectedValue
       THEN /\ w_pc' = "publish_all"
            /\ UNCHANGED discovery_published_
       ELSE /\ discovery_published_' = FALSE
            /\ w_pc' = "messages"
    /\ UNCHANGED <<bridge_running_, disc_epoch, nutVars, pollVars, cycleVars, b_pc,
                   republishVars, stampVars>>
    /\ UNCHANGED <<mqttVars, bridgeRest>>

\* the discovery block of pollAndPublish: the isConnected() check and what
\* follows it, short of publishAll
WorkerDiscovery ==
    /\ w_pc = "discovery"
    /\ IF IsConnectedValue
       THEN /\ w_pc' = IF discovery_published_ THEN "messages" ELSE "publish_all"
            /\ UNCHANGED discovery_published_
       ELSE /\ discovery_published_' = FALSE
            /\ w_pc' = "messages"
    /\ UNCHANGED <<bridge_running_, disc_epoch, nutVars, pollVars, cycleVars, b_pc,
                   republishVars, stampVars>>
    /\ UNCHANGED <<mqttVars, bridgeRest>>

\* if (discovery_publisher_->publishAll()) discovery_published_ = true;
\* every publish of publishAll fails when the client is not connected
WorkerPublishAll ==
    /\ w_pc = "publish_all"
    /\ IF IsConnectedValue
       THEN /\ cycle_pub' = cycle_pub \cup {"discovery"}
            /\ discovery_published_' = TRUE
            /\ disc_epoch' = Some(drops)
       ELSE UNCHANGED <<cycle_pub, discovery_published_, disc_epoch>>
    /\ w_pc' = "messages"
    /\ UNCHANGED <<bridge_running_, nutVars, pollVars, cycle_end, bus_back, b_pc,
                   republishVars, stampVars>>
    /\ UNCHANGED <<mqttVars, bridgeRest>>

\* auto mqtt_messages = ups_data.toMqttMessages(); bool all_success = true;
WorkerMessages ==
    /\ w_pc = "messages"
    /\ w_todo' = toMqttMessages(w_data)
    /\ w_all_success' = TRUE
    /\ w_pc' = "publish"
    /\ UNCHANGED <<bridge_running_, discovery_published_, disc_epoch, nutVars, w_vars,
                   w_data, cycleVars, b_pc, republishVars, stampVars>>
    /\ UNCHANGED <<mqttVars, bridgeRest>>

\* one turn of the loop that publishes the messages, or its end and the
\* return of all_success
WorkerPublish ==
    /\ w_pc = "publish"
    /\ IF w_todo = <<>>
       THEN /\ cycle_end' = IF w_all_success THEN "published" ELSE "publish_failed"
            /\ w_pc' = IF w_all_success THEN "stamp_lock" ELSE "sleep"
            /\ UNCHANGED <<w_todo, w_all_success, cycle_pub>>
       ELSE /\ w_todo' = Tail(w_todo)
            /\ IF IsConnectedValue
               THEN /\ cycle_pub' = cycle_pub \cup {Head(w_todo).topic[4]}
                    /\ UNCHANGED w_all_success
               ELSE /\ w_all_success' = FALSE
                    /\ UNCHANGED cycle_pub
            /\ UNCHANGED <<cycle_end, w_pc>>
    /\ UNCHANGED <<bridge_running_, discovery_published_, disc_epoch, nutVars, w_vars,
                   w_data, bus_back, b_pc, republishVars, stampVars>>
    /\ UNCHANGED <<mqttVars, bridgeRest>>

\* if (pollAndPublish()) { std::lock_guard<std::mutex> lock(mutex_);
WorkerStampLock ==
    /\ w_pc = "stamp_lock"
    /\ bridge_mutex_ = "none"
    /\ bridge_mutex_' = "worker"
    /\ w_pc' = "stamp"
    /\ UNCHANGED <<bridge_running_, discovery_published_, disc_epoch, nutVars, pollVars,
                   cycleVars, b_pc, republishVars, last_poll_time_>>
    /\ UNCHANGED <<mqttVars, bridgeRest>>

\* last_poll_time_ = std::chrono::system_clock::now(); } and the lock is
\* released
WorkerStamp ==
    /\ w_pc = "stamp"
    /\ last_poll_time_' = 1
    /\ bridge_mutex_' = "none"
    /\ w_pc' = "sleep"
    /\ UNCHANGED <<bridge_running_, discovery_published_, disc_epoch, nutVars, pollVars,
                   cycleVars, b_pc, republishVars>>
    /\ UNCHANGED <<mqttVars, bridgeRest>>

\* the sleep of poll_interval_seconds_, a second at a time while running_
WorkerSleep ==
    /\ w_pc = "sleep"
    /\ w_pc' = "loop"
    /\ UNCHANGED <<bridge_running_, discovery_published_, disc_epoch, nutVars, pollVars,
                   cycleVars, b_pc, republishVars, stampVars>>
    /\ UNCHANGED <<mqttVars, bridgeRest>>

\* nut_client_->disconnect() after the loop; the thread ends
WorkerExit ==
    /\ w_pc = "exit"
    /\ nutDisconnect
    /\ w_pc' = "done"
    /\ UNCHANGED <<bridge_running_, discovery_published_, disc_epoch, pollVars, cycleVars,
                   b_pc, republishVars, stampVars>>
    /\ UNCHANGED <<mqttVars, bridgeRest>>

\* NutBridgeService::stop(): running_ = false
BridgeStop ==
    /\ b_pc = "started"
    /\ bridge_running_
    /\ bridge_running_' = FALSE
    /\ b_pc' = "joining"
    /\ UNCHANGED <<discovery_published_, disc_epoch, nutVars, w_pc, pollVars, cycleVars,
                   republishVars, stampVars>>
    /\ UNCHANGED <<mqttVars, bridgeRest>>

\* stop(): worker_thread_.join() returns
BridgeJoin ==
    /\ b_pc = "joining"
    /\ w_pc = "done"
    /\ b_pc' = "stopped"
    /\ UNCHANGED <<bridge_running_, discovery_published_, disc_epoch, nutVars, w_pc,
                   pollVars, cycleVars, republishVars, stampVars>>
    /\ UNCHANGED <<mqttVars, bridgeRest>>

\* the manual republish answering true whatever the connection
RepublishDiscoveryUnchecked ==
    /\ r_calls < MaxRepublish
    /\ r_calls' = r_calls + 1
    /\ r_ret' = "true"
    /\ discovery_published_' = TRUE
    /\ disc_epoch' = Some(drops)
    /\ UNCHANGED <<bridge_running_, nutVars, w_pc, pollVars, cycleVars, b_pc, stampVars>>
    /\ UNCHANGED <<mqttVars, bridgeRest>>

\* NutBridgeService::republishDiscovery(), from any thread at any time:
\* false if the client is not connected, else the discovery payload is
\* published again
RepublishDiscovery ==
    /\ bridge_mutex_ = "none"
    /\ r_calls < MaxRepublish
    /\ r_calls' = r_calls + 1
    /\ IF IsConnectedValue
       THEN /\ r_ret' = "true"
            /\ discovery_published_' = TRUE
            /\ disc_epoch' = Some(drops)
       ELSE /\ r_ret' = "false"
            /\ UNCHANGED <<discovery_published_, disc_epoch>>
    /\ UNCHANGED <<bridge_running_, nutVars, w_pc, pollVars, cycleVars, b_pc, stampVars>>
    /\ UNCHANGED <<mqttVars, bridgeRest>>

BridgeNext ==
    \/ BridgeStart
    \/ WorkerConnect
    \/ WorkerLoop
    \/ WorkerEnsure
    \/ WorkerPoll
    \/ WorkerDiscovery
    \/ WorkerPublishAll
    \/ WorkerMessages
    \/ WorkerPublish
    \/ WorkerStampLock
    \/ WorkerStamp
    \/ WorkerSleep
    \/ WorkerExit
    \/ BridgeStop
    \/ BridgeJoin
    \/ RepublishDiscovery
    \/ ConnectionDrops
    \/ AutoReconnect
    \/ OnConnectionLost

BridgeSpec == BridgeInit /\ [][BridgeNext]_vars

(***************************************************************************)
(* DeviceMapper on its own: initialize() from any environment and          *)
(* addDevice() with any configuration, in any order                        *)
(***************************************************************************)
MaxMapperCalls == 3

\* database identifiers a mapping can name: one of its own, and the
\* identifiers of the devices
DbIdentifiers == {DB1, D1, D2}

\* UPS_DEVICE_IDS as parseDeviceIds leaves it in device_ids_
DeviceIdLists == {<<D1>>, <<D2>>, <<D1, D2>>}

\* UPS_DB_MAPPING: unset, or a JSON object from device identifiers to
\* database identifiers
DbMappings ==
    {NullOpt} \cup {Some(m) : m \in UNION {[S -> DbIdentifiers] : S \in SUBSET MqttDeviceIds}}

\* the DeviceConfig values handed to addDevice
DeviceConfigs ==
    [mqtt_device_id : MqttDeviceIds, db_identifier : DbIdentifiers,
     friendly_name : {<<>>, <<"a">>}]

RECURSIVE IdentityMaps(_, _)
\* for (id : device_ids_) { mqtt_to_db_map_[id] = id; db_to_mqtt_map_[id] = id; }
IdentityMaps(ids, maps) ==
    IF ids = <<>> THEN maps
    ELSE IdentityMaps(Tail(ids),
             [mqtt_to_db |-> MapPut(maps.mqtt_to_db, Head(ids), Head(ids)),
              db_to_mqtt |-> MapPut(maps.db_to_mqtt, Head(ids), Head(ids))])

\* the static members as defined: empty maps, not initialized
MapperInit ==
    /\ MqttInit
    /\ MatchIdle
    /\ CollectorIdle
    /\ UpdateIdle
    /\ ConvIdle
    /\ BridgeIdle
    /\ OrderIdle
    /\ mqtt_to_db_map_ = NoMapping
    /\ db_to_mqtt_map_ = NoMapping
    /\ friendly_names_ = NoMapping
    /\ device_ids_ = <<>>
    /\ initialized_ = FALSE
    /\ mapper_calls = 0
    /\ h_topic = <<>>

\* DeviceMapper::initialize() with UPS_DEVICE_IDS and UPS_DB_MAPPING set to
\* any values, UPS_FRIENDLY_NAMES unset
Initialize ==
    /\ mapper_calls < MaxMapperCalls
    /\ mapper_calls' = mapper_calls + 1
    /\ IF initialized_
       THEN UNCHANGED <<mqtt_to_db_map_, db_to_mqtt_map_, device_ids_, initialized_>>
       ELSE \E ids \in DeviceIdLists, db_mapping_env \in DbMappings :
               LET before == [mqtt_to_db |-> mqtt_to_db_map_, db_to_mqtt |-> db_to_mqtt_map_]
                   all_ids == device_ids_ \o ids
                   after == IF has_value(db_mapping_env)
                            THEN parseDbMapping(Deref(db_mapping_env), before)
                            ELSE IdentityMaps(all_ids, before)
               IN /\ device_ids_' = all_ids
                  /\ mqtt_to_db_map_' = after.mqtt_to_db
                  /\ db_to_mqtt_map_' = after.db_to_mqtt
                  /\ initialized_' = TRUE
    /\ UNCHANGED <<friendly_names_, h_topic>>
    /\ UNCHANGED <<mqttVars, matchVars, collectorVars, updateVars, convVars, bridgeVars,
                   nr_pc, orderVars>>

\* DeviceMapper::addDevice(config)
AddDevice ==
    /\ mapper_calls < MaxMapperCalls
    /\ mapper_calls' = mapper_calls + 1
    /\ \E config \in DeviceConfigs :
          /\ device_ids_' =
                IF \E i \in 1..Len(device_ids_) : device_ids_[i] = config.mqtt_device_id
                THEN device_ids_
                ELSE Append(device_ids_, config.mqtt_device_id)
          /\ mqtt_to_db_map_' = MapPut(mqtt_to_db_map_, config.mqtt_device_id,
                                       config.db_identifier)
          /\ db_to_mqtt_map_' = MapPut(db_to_mqtt_map_, config.db_identifier,
                                       config.mqtt_device_id)
          /\ friendly_names_' =
                IF config.friendly_name /= <<>>
                THEN MapPut(friendly_names_, config.mqtt_device_id, config.friendly_name)
                ELSE friendly_names_
    /\ UNCHANGED <<initialized_, h_topic>>
    /\ UNCHANGED <<mqttVars, matchVars, collectorVars, updateVars, convVars, bridgeVars,
                   nr_pc, orderVars>>

MapperNext ==
    \/ Initialize
    \/ AddDevice

MapperSpec == MapperInit /\ [][MapperNext]_vars

(***************************************************************************)
(* NutClient on its own: connect(), disconnect() and reconnect() called in *)
(* any order, upscli_connect succeeding or failing                         *)
(***************************************************************************)
\* the bridge's other variables, which NutClient does not touch
bridgeOwnVars == <<bridge_running_, discovery_published_, disc_epoch, w_pc, pollVars,
                   cycleVars, b_pc, republishVars, stampVars>>

\* the client as NutClient::NutClient leaves it
NutClientInit ==
    /\ MqttInit
    /\ MatchIdle
    /\ CollectorIdle
    /\ UpdateIdle
    /\ HandlerIdle
    /\ ConvIdle
    /\ BridgeIdle
    /\ OrderIdle

\* connect(), also from another thread while reconnect() is between its
\* two calls
NutConnect ==
    /\ \E ok \in BOOLEAN : nutConnect(ok)
    /\ UNCHANGED <<nr_pc, bridgeOwnVars>>
    /\ UNCHANGED <<mqttVars, nutRest>>

\* disconnect()
NutDisconnect ==
    /\ nutDisconnect
    /\ UNCHANGED <<nr_pc, bridgeOwnVars>>
    /\ UNCHANGED <<mqttVars, nutRest>>

\* reconnect(): disconnect();
NutReconnectDisconnect ==
    /\ nr_pc = "idle"
    /\ nutDisconnect
    /\ nr_pc' = "connect"
    /\ UNCHANGED bridgeOwnVars
    /\ UNCHANGED <<mqttVars, nutRest>>

\* reconnect(): return connect();
NutReconnectConnect ==
    /\ nr_pc = "connect"
    /\ \E ok \in BOOLEAN : nutConnect(ok)
    /\ nr_pc' = "idle"
    /\ UNCHANGED bridgeOwnVars
    /\ UNCHANGED <<mqttVars, nutRest>>

NutClientNext ==
    \/ NutConnect
    \/ NutDisconnect
    \/ NutReconnectDisconnect
    \/ NutReconnectConnect

NutClientSpec == NutClientInit /\ [][NutClientNext]_vars

(***************************************************************************)
(* The locks on their own: every call of the collector's process as the    *)
(* sequence of lock operations it performs, on five threads                *)
(***************************************************************************)
\* std::lock_guard's constructor and destructor, and std::try_to_lock
Lock(m) == <<"lock", m>>
Unlock(m) == <<"unlock", m>>
TryLock(m) == <<"try_lock", m>>

\* MqttClient::connection_mutex_ is a std::recursive_mutex, the others are
\* std::mutex
Recursive(m) == m = "connection_mutex_"

\* DatabaseService::isConnected; reconnect() takes and releases the same
\* mutex in the same way
dbIsConnectedLocks == <<Lock("db_connection_mutex_"), Unlock("db_connection_mutex_")>>

\* DatabaseService::executeWithRetry, one attempt: isConnected(), then the
\* operation
executeWithRetryLocks(operation) == dbIsConnectedLocks \o operation

\* DatabaseService::getDeviceId: the cache is looked up under cache_mutex_;
\* on a miss the query runs under connection_mutex_ and stores its result
\* under cache_mutex_
getDeviceIdLocks(hit) ==
    <<Lock("cache_mutex_"), Unlock("cache_mutex_")>>
        \o (IF hit THEN <<>>
            ELSE executeWithRetryLocks(
                     <<Lock("db_connection_mutex_"), Lock("cache_mutex_"),
                       Unlock("cache_mutex_"), Unlock("db_connection_mutex_")>>))

\* DatabaseService::insertUpsMetrics
insertUpsMetricsLocks(hit) ==
    getDeviceIdLocks(hit)
        \o executeWithRetryLocks(
               <<Lock("db_connection_mutex_"), Unlock("db_connection_mutex_")>>)

\* CollectorService::saveDeviceData, called with data_mutex_ held: the
\* insert, and on success last_save_time_ set under status_mutex_
saveDeviceDataLocks(hit, success) ==
    insertUpsMetricsLocks(hit)
        \o (IF success THEN <<Lock("status_mutex_"), Unlock("status_mutex_")>> ELSE <<>>)

\* what a flush under data_mutex_ does: no device to save, or one
FlushLocks ==
    {<<>>} \cup {saveDeviceDataLocks(hit, success) : hit \in BOOLEAN, success \in BOOLEAN}

\* one pass of CollectorService::scheduledSaveLoop
scheduledSavePassLocks ==
    {<<Lock("data_mutex_")>> \o flush \o <<Unlock("data_mutex_")>> : flush \in FlushLocks}

\* CollectorService::stop: running_ = false, join, the flush under data_mutex_
collectorStopLocks ==
    {<<<<"stop", "">>, <<"join", "">>, Lock("data_mutex_")>> \o flush
         \o <<Unlock("data_mutex_")>> : flush \in FlushLocks}

\* MqttClient::onMessageArrived dispatching to CollectorService::onMqttMessage
onMessageArrivedLocks ==
    <<Lock("callbacks_mutex_"), Lock("data_mutex_"), Unlock("data_mutex_"),
      Unlock("callbacks_mutex_")>>

\* MqttClient::isConnected
isConnectedLocks == <<Lock("connection_mutex_"), Unlock("connection_mutex_")>>

\* MqttClient::publish
publishLocks ==
    isConnectedLocks \o <<Lock("connection_mutex_"), Unlock("connection_mutex_")>>

\* MqttClient::subscribe
subscribeLocks ==
    isConnectedLocks
        \o <<TryLock("connection_mutex_"), Unlock("connection_mutex_"),
             Lock("callbacks_mutex_"), Unlock("callbacks_mutex_")>>

\* CollectorService::getLastSaveTime with data_mutex_ taken inside
\* status_mutex_
getLastSaveTimeNestedLocks ==
    <<Lock("status_mutex_"), Lock("data_mutex_"), Unlock("data_mutex_"),
      Unlock("status_mutex_")>>

\* CollectorService::getLastSaveTime
getLastSaveTimeLocks == <<Lock("status_mutex_"), Unlock("status_mutex_")>>

\* CollectorService::getDeviceCount
getDeviceCountLocks == <<Lock("data_mutex_"), Unlock("data_mutex_")>>

\* the calls each thread makes
CallsOf(t) ==
    CASE t = "cb" -> {onMessageArrivedLocks}
      [] t = "saver" -> scheduledSavePassLocks
      [] t = "control" -> collectorStopLocks
      [] t = "app" -> {publishLocks, subscribeLocks}
      [] t = "status" -> {getLastSaveTimeLocks, getDeviceCountLocks, isConnectedLocks}

\* the collector started, its saver thread in its loop
LockInit ==
    /\ MqttInit
    /\ MatchIdle
    /\ CollectorIdle
    /\ UpdateIdle
    /\ HandlerIdle
    /\ ConvIdle
    /\ BridgeIdle
    /\ lk = [m \in LockNames |-> "none"]
    /\ l_todo = [t \in LockThreads |-> <<>>]
    /\ l_running = TRUE

\* the rest of the model, which the locks on their own leave alone
orderRest == <<mqttVars, matchVars, collectorVars, updateVars, handlerVars, convVars,
               bridgeVars, nr_pc>>

\* thread t begins a call; the saver begins a pass while (running_), stop()
\* returns at once if (!running_)
LockCall(t) ==
    /\ l_todo[t] = <<>>
    /\ t \in {"saver", "control"} => l_running
    /\ \E call \in CallsOf(t) : l_todo' = [l_todo EXCEPT ![t] = call]
    /\ UNCHANGED <<lk, l_running>>
    /\ UNCHANGED orderRest

\* thread t gets the mutex it asks for; a lock() of a mutex another thread
\* owns, or of a std::mutex the thread owns itself, does not return
LockAcquire(t) ==
    /\ l_todo[t] /= <<>>
    /\ Head(l_todo[t])[1] = "lock"
    /\ LET m == Head(l_todo[t])[2]
       IN /\ lk[m] = "none" \/ (lk[m] = t /\ Recursive(m))
          /\ lk' = [lk EXCEPT ![m] = t]
    /\ l_todo' = [l_todo EXCEPT ![t] = Tail(@)]
    /\ UNCHANGED l_running
    /\ UNCHANGED orderRest

\* std::try_to_lock: the mutex is taken if it is free, else the call
\* returns false at once
LockTry(t) ==
    /\ l_todo[t] /= <<>>
    /\ Head(l_todo[t])[1] = "try_lock"
    /\ LET m == Head(l_todo[t])[2]
       IN IF lk[m] = "none" \/ lk[m] = t
          THEN /\ lk' = [lk EXCEPT ![m] = t]
               /\ l_todo' = [l_todo EXCEPT ![t] = Tail(@)]
          ELSE /\ l_todo' = [l_todo EXCEPT ![t] = <<>>]
               /\ UNCHANGED lk
    /\ UNCHANGED l_running
    /\ UNCHANGED orderRest

\* the lock_guard goes out of scope
LockRelease(t) ==
    /\ l_todo[t] /= <<>>
    /\ Head(l_todo[t])[1] = "unlock"
    /\ lk' = [lk EXCEPT ![Head(l_todo[t])[2]] = "none"]
    /\ l_todo' = [l_todo EXCEPT ![t] = Tail(@)]
    /\ UNCHANGED l_running
    /\ UNCHANGED orderRest

\* stop(): running_ = false
LockStop(t) ==
    /\ l_todo[t] /= <<>>
    /\ Head(l_todo[t])[1] = "stop"
    /\ l_running' = FALSE
    /\ l_todo' = [l_todo EXCEPT ![t] = Tail(@)]
    /\ UNCHANGED lk
    /\ UNCHANGED orderRest

\* stop(): saver_thread_.join() returns once the saver has left its loop
LockJoin(t) ==
    /\ l_todo[t] /= <<>>
    /\ Head(l_todo[t])[1] = "join"
    /\ l_todo["saver"] = <<>>
    /\ l_todo' = [l_todo EXCEPT ![t] = Tail(@)]
    /\ UNCHANGED <<lk, l_running>>
    /\ UNCHANGED orderRest

LockNext ==
    \/ \E t \in LockThreads : LockCall(t)
    \/ \E t \in LockThreads : LockAcquire(t)
    \/ \E t \in LockThreads : LockTry(t)
    \/ \E t \in LockThreads : LockRelease(t)
    \/ \E t \in LockThreads : LockStop(t)
    \/ \E t \in LockThreads : LockJoin(t)

LockSpec == LockInit /\ [][LockNext]_vars

(***************************************************************************)
(* Shutdown of the two services: each loop with its stop(), the other      *)
(* service already stopped                                                 *)
(***************************************************************************)
\* the collector after start(), messages that named no device, and stop()
CollectorStopped ==
    /\ running_ = FALSE
    /\ save_interval_seconds_ = DefaultSaveInterval
    /\ device_data_ = NoDevices
    /\ last_save_times_ = NoTimes
    /\ last_save_time_ = 0
    /\ data_mutex_ = NoThread
    /\ clock = 0
    /\ s_pc = "none"
    /\ s_now = 0
    /\ s_todo = {}
    /\ c_pc = "idle"
    /\ c_todo = {}
    /\ sink = <<>>
    /\ c_started = TRUE
    /\ updates = MaxUpdates

\* the bridge after start() and a stop() that came before the first pass of
\* its loop
BridgeStopped ==
    /\ bridge_running_ = FALSE
    /\ discovery_published_ = FALSE
    /\ nut_connected_ = FALSE
    /\ ups_conn_ = 0
    /\ nut_live = 0
    /\ nr_pc = "idle"
    /\ reconnect_attempts_ = 0
    /\ backoff_sec = NullOpt
    /\ w_pc = "done"
    /\ w_vars = <<>>
    /\ w_data = BridgeUpsData
    /\ w_todo = <<>>
    /\ w_all_success = TRUE
    /\ cycle_pub = {}
    /\ cycle_end = "none"
    /\ b_pc = "stopped"
    /\ bridge_mutex_ = "none"
    /\ last_poll_time_ = 0
    /\ r_ret = "none"
    /\ r_calls = 0
    /\ disc_epoch = NullOpt
    /\ bus_back = NullOpt

\* the collector as constructed with one of the intervals, after messages
\* that named no device: two more messages can arrive, enough for a device
\* to become complete
CollectorFresh ==
    \E interval \in SaveIntervals :
       /\ running_ = FALSE
       /\ save_interval_seconds_ = interval
       /\ device_data_ = NoDevices
       /\ last_save_times_ = NoTimes
       /\ last_save_time_ = 0
       /\ data_mutex_ = NoThread
       /\ clock = 0
       /\ s_pc = "none"
       /\ s_now = 0
       /\ s_todo = {}
       /\ c_pc = "idle"
       /\ c_todo = {}
       /\ sink = <<>>
       /\ c_started = FALSE
       /\ updates = MaxUpdates - 2

\* a bridge as constructed beside a collector that was stopped, the broker
\* connected or not; or a collector beside a bridge that was stopped, the
\* broker connected
CancelInit ==
    /\ MqttInit
    /\ MatchIdle
    /\ UpdateIdle
    /\ HandlerIdle
    /\ ConvIdle
    /\ OrderIdle
    /\ \/ BridgeIdle /\ CollectorStopped
       \/ BridgeStopped /\ connected_ /\ CollectorFresh

CancelNext ==
    \/ BridgeStart
    \/ WorkerConnect
    \/ WorkerLoop
    \/ WorkerEnsure
    \/ WorkerPoll
    \/ WorkerDiscovery
    \/ WorkerPublishAll
    \/ WorkerMessages
    \/ WorkerPublish
    \/ WorkerStampLock
    \/ WorkerStamp
    \/ WorkerSleep
    \/ WorkerExit
    \/ BridgeStop
    \/ BridgeJoin
    \/ OnMqttMessage
    \/ Start
    \/ SaverCheck
    \/ SaverLock
    \/ SaverVisit
    \/ SaverUnlock
    \/ SaverSleep
    \/ StopBegin
    \/ StopJoin
    \/ StopLock
    \/ StopFlush
    \/ StopReturn

\* a step of the bridge's worker thread
WorkerStep ==
    \/ WorkerConnect
    \/ WorkerLoop
    \/ WorkerEnsure
    \/ WorkerPoll
    \/ WorkerDiscovery
    \/ WorkerPublishAll
    \/ WorkerMessages
    \/ WorkerPublish
    \/ WorkerStampLock
    \/ WorkerStamp
    \/ WorkerSleep
    \/ WorkerExit

\* a step of the collector's saver thread
SaverStep == SaverCheck \/ SaverLock \/ SaverVisit \/ SaverUnlock \/ SaverSleep

\* a step of a thread that is inside stop()
StopStep == BridgeJoin \/ StopJoin \/ StopLock \/ StopFlush \/ StopReturn

\* Every thread that can run does run, and every call it makes returns: the
\* worker thread, the saver thread and the thread inside stop() each take
\* their next step when it stays possible.
CancelSpec ==
    /\ CancelInit
    /\ [][CancelNext]_vars
    /\ WF_vars(WorkerStep)
    /\ WF_vars(SaverStep)
    /\ WF_vars(StopStep)

(***************************************************************************)
(* Properties of the collector                                             *)
(***************************************************************************)
\* the record has the two fields a stored row requires
Complete(data) == data.ups_status /= NullOpt /\ data.battery_charge /= NullOpt

\* the insert invocations made on one flush path
InsertsOn(path) == {i \in 1..Len(sink) : sink[i].path = path}

\* C15: every record the storage sink's insert was invoked with, by the
\* scheduled flush and by the shutdown flush alike, has both the UPS status
\* and the battery charge present, whatever its other fields are.
C15_OnlyCompleteRecordsInserted ==
    \A i \in 1..Len(sink) : Complete(sink[i].data)

\* a shutdown flush has visited every device; it stored a record that also
\* has a runtime, a scheduled flush had stored one before, and the buffer
\* still holds a record without a battery charge that was not handed over
C15_Witness ==
    /\ c_pc = "stop_flush"
    /\ c_todo = {}
    /\ InsertsOn("tick") /= {}
    /\ \E i \in InsertsOn("stop") : sink[i].data.battery_runtime /= NullOpt
    /\ \E d \in DOMAIN device_data_ :
          /\ device_data_[d].battery_charge = NullOpt
          /\ device_data_[d].ups_status /= NullOpt
          /\ \A i \in InsertsOn("stop") : sink[i].device /= d

\* the scheduler tick is visiting device d in this step
TickVisits(d) ==
    /\ s_pc = "visit"
    /\ s_todo /= {}
    /\ d = MinKey(s_todo)
    /\ s_todo' = s_todo \ {d}

\* this step invokes the storage insert for device d
InsertInvoked(d) ==
    /\ Len(sink') = Len(sink) + 1
    /\ sink'[Len(sink')].device = d

\* no insert for device d has succeeded so far
NeverSaved(d) == \A i \in 1..Len(sink) : sink[i].device = d => ~sink[i].success

\* C16: a scheduler tick that visits a device whose record is complete and
\* that has never been saved invokes the storage insert for it, however
\* little time has passed.
C16_NeverSavedFlushedAtNextTick ==
    [][\A d \in DOMAIN device_data_ :
          TickVisits(d) /\ Complete(device_data_[d]) /\ NeverSaved(d)
             => InsertInvoked(d)]_vars

\* seconds from the recorded last-save time of device d to the tick's now
ElapsedAtTick(d) == s_now - last_save_times_[d]

\* C17: when a scheduler tick visits a device that has a recorded last-save
\* time, the storage insert is invoked for its complete record if and only
\* if the time elapsed since then is at least the save interval; a device
\* saved more recently than that is not handed to the storage sink.
C17_FlushedIffIntervalElapsed ==
    [][\A d \in DOMAIN device_data_ \cap DOMAIN last_save_times_ :
          TickVisits(d) =>
             /\ Complete(device_data_[d]) =>
                   (InsertInvoked(d) <=> ElapsedAtTick(d) >= save_interval_seconds_)
             /\ ElapsedAtTick(d) < save_interval_seconds_ => sink' = sink]_vars

\* a tick has visited two complete devices: for the one whose elapsed time
\* was exactly the interval the insert was invoked (and failed, so that its
\* recorded time still shows), the one recorded more recently was left out
C17_Witness ==
    /\ s_pc = "visit"
    /\ s_todo = {}
    /\ s_now = clock
    /\ sink /= <<>>
    /\ \E d, e \in DOMAIN device_data_ :
          /\ d /= e
          /\ Complete(device_data_[d])
          /\ Complete(device_data_[e])
          /\ sink[Len(sink)] = Insertion(d, FALSE, "tick")
          /\ ElapsedAtTick(d) = save_interval_seconds_
          /\ ElapsedAtTick(e) < save_interval_seconds_
          /\ \A i \in 1..Len(sink) : sink[i].device /= e

\* the recorded last-save time of device d is not what it was before this
\* step: it appeared, or it has another value
LastSaveChanges(d) ==
    /\ d \in DOMAIN last_save_times_'
    /\ d \in DOMAIN last_save_times_ => last_save_times_'[d] /= last_save_times_[d]

\* the latest insert for device d failed
LastInsertFailed(d) ==
    \E i \in 1..Len(sink) :
       /\ sink[i].device = d
       /\ ~sink[i].success
       /\ \A j \in (i + 1)..Len(sink) : sink[j].device /= d

\* C18: the last-save timestamp of a device changes only in a step in which
\* an insert for that device succeeds, and such a step sets it to the
\* current time; a failed insert leaves it as it was, and the next scheduler
\* tick that visits the device, its record still complete, invokes the
\* insert again.
C18_LastSaveFollowsSuccessfulInsert ==
    [][\A d \in DOMAIN device_data_' :
          /\ LastSaveChanges(d) => InsertInvoked(d) /\ sink'[Len(sink')].success
          /\ InsertInvoked(d) /\ sink'[Len(sink')].success
                => last_save_times_'[d] = clock
          /\ InsertInvoked(d) /\ ~sink'[Len(sink')].success
                => last_save_times_' = last_save_times_
          /\ (/\ d \in DOMAIN device_data_
              /\ TickVisits(d)
              /\ Complete(device_data_[d])
              /\ LastInsertFailed(d)) => InsertInvoked(d)]_vars

\* this step is stop() returning
StopReturns == c_pc = "stop_flush" /\ c_todo = {} /\ c_pc' = "idle"

\* C19: when stop() returns on a collector that was running, the storage
\* insert has been invoked by the shutdown flush for every device of the
\* record map whose record is complete, with that record, however recently
\* the device was saved; and the shutdown flush invokes the insert only
\* after the saver thread has been joined.
C19_StopFlushesEveryCompleteRecord ==
    [][/\ StopReturns =>
            \A d \in DOMAIN device_data_ :
               Complete(device_data_[d]) =>
                  \E i \in InsertsOn("stop") :
                     sink[i].device = d /\ sink[i].data = device_data_[d]
       /\ (Len(sink') > Len(sink) /\ sink'[Len(sink')].path = "stop")
             => s_pc = "none" /\ ~running_]_vars

\* stop() has returned after flushing two devices, one of which the
\* scheduler had saved successfully at that very second
C19_Witness ==
    /\ c_pc = "idle"
    /\ c_started
    /\ ~running_
    /\ s_pc = "none"
    /\ \E i, j, k \in 1..Len(sink) :
          /\ i < j
          /\ sink[i].path = "tick" /\ sink[i].success
          /\ sink[j].path = "stop"
          /\ sink[j].device = sink[i].device /\ sink[j].at = sink[i].at
          /\ sink[k].path = "stop" /\ sink[k].device /= sink[j].device

\* this step ends the pass of a scheduler tick over the devices
TickPassEnds == s_pc = "visit" /\ s_todo = {} /\ s_pc' = "sleep"

\* the insert invocations the current tick has made for device d
TickInserts(d) ==
    {i \in InsertsOn("tick") : sink[i].device = d /\ sink[i].at = s_now}

\* C24: when the pass of a scheduler tick ends, every device with a
\* complete record that was due in it has been handed to the storage
\* insert, whatever became of the devices visited before it (a failed
\* insert, an incomplete record); the same holds for every complete record
\* when the shutdown flush ends; and the saver thread leaves its loop only
\* once the collector has been told to stop.
C24_FlushesAreIsolatedPerDevice ==
    [][/\ TickPassEnds =>
            \A d \in DOMAIN device_data_ :
               (Complete(device_data_[d]) /\ TickInserts(d) = {})
                  => s_now - last_save_times_[d] < save_interval_seconds_
       /\ StopReturns =>
            \A d \in DOMAIN device_data_ :
               Complete(device_data_[d])
                  => \E i \in InsertsOn("stop") : sink[i].device = d
       /\ (s_pc /= "exited" /\ s_pc' = "exited") => ~running_]_vars

\* a tick has ended its pass, and is asleep, after an insert that failed for
\* one device and an insert for the next device
C24_Witness ==
    /\ s_pc = "sleep"
    /\ running_
    /\ \E i, j \in InsertsOn("tick") :
          /\ i < j
          /\ ~sink[i].success
          /\ sink[i].at = clock /\ sink[j].at = clock
          /\ sink[j].device /= sink[i].device

(***************************************************************************)
(* Properties of the record merge                                          *)
(***************************************************************************)
\* the payload does not start with a number: after leading blanks and an
\* optional sign there is no digit
NotANumber(value) ==
    LET body == SkipSpace(value)
        rest == IF body /= <<>> /\ Head(body) \in {"-", "+"} THEN Tail(body) ELSE body
    IN rest = <<>> \/ Head(rest) \notin Digits

\* C20: an update of a numeric field whose payload cannot be parsed as a
\* number leaves the field as it was: a value that was present stays, an
\* absent field stays absent.
C20_UnparsableLeavesFieldUntouched ==
    [][/\ (u_sensor_name' = "battery_charge" /\ NotANumber(u_value'))
             => u_record'.battery_charge = u_record.battery_charge
       /\ (u_sensor_name' = "battery_runtime" /\ NotANumber(u_value'))
             => u_record'.battery_runtime = u_record.battery_runtime]_vars

\* the fields of the record that updates can name
RecordFields == {"battery_charge", "battery_runtime", "ups_status", "power_failure"}

\* the field of the record a sensor name stands for, "none" if it names none
FieldNamed(sensor_name) ==
    CASE sensor_name \in {"battery_charge", "battery_runtime", "power_failure"} -> sensor_name
      [] sensor_name \in {"ups_status", "status"} -> "ups_status"
      [] OTHER -> "none"

\* the payload is a decimal numeral: an optional sign and digits, nothing else
IsNumeral(value) ==
    LET digits == IF value /= <<>> /\ Head(value) \in {"-", "+"} THEN Tail(value) ELSE value
    IN digits /= <<>> /\ \A i \in 1..Len(digits) : digits[i] \in Digits

\* the number a decimal numeral denotes
NumeralValue(value) ==
    IF Head(value) = "-" THEN 0 - DecimalValue(Tail(value), 0)
    ELSE IF Head(value) = "+" THEN DecimalValue(Tail(value), 0)
    ELSE DecimalValue(value, 0)

\* the payload denotes a value of the field's type: a numeral for the
\* numeric fields, any text for the flag and for the status
Parsable(field, value) ==
    field \in {"battery_charge", "battery_runtime"} => IsNumeral(value)

\* the value a parsable payload denotes for the field
Written(field, value) ==
    CASE field \in {"battery_charge", "battery_runtime"} -> NumeralValue(value)
      [] field = "power_failure" ->
            value \in {<<"1">>, <<"t", "r", "u", "e">>, <<"o", "n">>}
      [] OTHER -> value

\* C21: an update with a parsable payload leaves the field it names present
\* with the value of the payload, and every other field that holds a value
\* keeps it; so after any sequence of such updates each field holds the
\* value of the last update that named it.
C21_LastWriteWinsPerField ==
    [][\A f \in RecordFields :
          Parsable(FieldNamed(u_sensor_name'), u_value') =>
             /\ FieldNamed(u_sensor_name') = f
                   => u_record'[f] = {Written(f, u_value')}
             /\ (FieldNamed(u_sensor_name') /= f /\ u_record[f] /= NullOpt)
                   => u_record'[f] = u_record[f]]_vars

\* C22: an update leaves every field it does not name, other than the
\* timestamp, as it was; a field no update has named is still absent.
C22_UpdateChangesOnlyNamedField ==
    [][\A f \in RecordFields :
          FieldNamed(u_sensor_name') /= f => u_record'[f] = u_record[f]]_vars

(***************************************************************************)
(* Properties of the collector's message handler                           *)
(***************************************************************************)
\* the device identifier the topic of the last message names: its third level
TopicDevice(topic) == topic[3]

\* the record stored for a device identifier: the one under the key the
\* registry gives it, or none
RecordOf(id, records) ==
    IF getDbIdentifier(id) \in DOMAIN records THEN {records[getDbIdentifier(id)]} ELSE {}

\* C23: an update whose topic names device identifier A leaves the record
\* stored for every other device identifier B as it was, whatever the
\* registry maps and whether A and B are configured or not.
C23_UpdateTouchesOnlyItsDevice ==
    [][\A b \in TopicDeviceIds :
          (Len(h_topic') = 5 /\ TopicDevice(h_topic') /= b)
             => RecordOf(b, device_data_') = RecordOf(b, device_data_)]_vars

\* C25: a message whose topic does not have exactly five levels is ignored
\* by the handler: no record is created, and no record and no last-save
\* entry is changed.
C25_MalformedTopicIgnored ==
    [][Len(h_topic') /= 5
          => device_data_' = device_data_ /\ last_save_times_' = last_save_times_]_vars

(***************************************************************************)
(* Properties of the bridge's messages                                     *)
(***************************************************************************)
\* the optional fields of the record
BridgeFields ==
    {"battery_charge", "battery_runtime", "battery_low_threshold", "battery_type",
     "ups_status", "power_failure", "delay_shutdown"}

\* the name a field goes by in topics
TopicName(f) == IF f = "battery_low_threshold" THEN "battery_low_charge_threshold" ELSE f

\* the messages among messages addressed to the state topic of field f
StateMessages(messages, f) ==
    {i \in DOMAIN messages :
        messages[i].topic = <<"homeassistant", "sensor", n_data.device_id, TopicName(f), "state">>}

\* C29: for a complete record the bridge emits exactly one state message for
\* each field present in the record and none for an absent field, and every
\* message is QoS 1, not retained and addressed to the state topic of a field
\* of the record's device.
C29_OneStateMessagePerPresentField ==
    (has_value(n_messages) /\ isValid(n_data)) =>
        LET messages == Deref(n_messages)
        IN /\ \A f \in BridgeFields :
                 Cardinality(StateMessages(messages, f)) = IF has_value(n_data[f]) THEN 1 ELSE 0
           /\ \A i \in DOMAIN messages :
                 /\ messages[i].qos = 1
                 /\ ~messages[i].retain
                 /\ \E f \in BridgeFields : i \in StateMessages(messages, f)

(***************************************************************************)
(* Properties of the bridge                                                *)
(***************************************************************************)
\* the last pass of the worker's loop got a complete record and went through
\* the discovery block and the publishing of its messages
PassWithCompleteRecord == cycle_end \in {"published", "publish_failed"}

\* the broker connection had come back from a drop before the last pass
\* began, discovery had not been published since, and the connection has
\* not dropped again
BackSinceBeforePass == has_value(bus_back) /\ transportUp /\ Deref(bus_back) = drops

\* C26: whenever the broker connection comes back after a drop, the bridge
\* publishes the discovery payload again in the next pass of its loop that
\* gets a complete record.
C26_DiscoveryRepublishedAfterReconnect ==
    (PassWithCompleteRecord /\ BackSinceBeforePass) => "discovery" \in cycle_pub

\* a call of republishDiscovery returns in this step
RepublishReturns == r_calls' /= r_calls

\* C27: a manual republish called while the client is not connected returns
\* false, whatever the number of calls before it and whether the bridge was
\* never started, is running or was stopped, and it leaves everything else
\* as it was: nothing is published and no retry is left behind.
C27_RepublishFailsWhileDisconnected ==
    [][(RepublishReturns /\ ~IsConnectedValue) =>
          /\ r_ret' = "false"
          /\ UNCHANGED <<bridge_running_, discovery_published_, disc_epoch, nutVars, w_pc,
                         pollVars, cycleVars, b_pc, stampVars, mqttVars>>]_vars

C27_Witness ==
    /\ client_ = 0
    /\ b_pc = "stopped"
    /\ r_calls = MaxRepublish
    /\ r_ret = "false"

\* the worker publishes something in this step
WorkerPublishes == cycle_pub' /= cycle_pub /\ cycle_pub' /= {}

\* C28: the worker publishes only while the NUT server is connected, and
\* only of a non-empty snapshot whose record is complete; a pass that ended
\* with a failed connect, an empty snapshot or an incomplete record has
\* published neither a state message nor the discovery payload.
C28_PublishesOnlyCompleteRecords ==
    [][/\ WorkerPublishes => (nut_connected_ /\ w_vars /= <<>> /\ isValid(w_data))
       /\ cycle_end' \in {"connect_failed", "empty", "incomplete"} => cycle_pub' = {}]_vars

C28_Witness ==
    /\ cycle_end = "incomplete"
    /\ w_vars /= <<>>
    /\ IsConnectedValue
    /\ ~discovery_published_
    /\ cycle_pub = {}

\* min(2^(n-1), 64)
CappedBackoff(n) == IF n > 7 THEN 64 ELSE 2 ^ (n - 1)

\* C30: after the n-th consecutive failed connect the delay slept is
\* min(2^(n-1), 64) seconds, for every n >= 1, and a successful connect
\* resets the failure counter to zero.
C30_BackoffIsCappedExponential ==
    /\ reconnect_attempts_ > 0 => backoff_sec = Some(CappedBackoff(reconnect_attempts_))
    /\ nut_connected_ => reconnect_attempts_ = 0

(***************************************************************************)
(* Properties of the record's validity                                     *)
(***************************************************************************)
\* the record's battery charge is present and outside 0..100
ChargeOutOfRange(data) ==
    /\ has_value(data.battery_charge)
    /\ (Deref(data.battery_charge) < 0 \/ Deref(data.battery_charge) > 100)

\* C36: a record whose battery charge is negative or above 100 is not
\* valid, whatever other fields are present.
C36_OutOfRangeChargeIsInvalid == ChargeOutOfRange(u_record) => ~isValid(u_record)

C39_FailedSubscribeLeavesRegistry ==
    \A t \in AppThreads :
        (/\ calls = 1
         /\ op[t] = "subscribe"
         /\ pc[t] = "returning"
         /\ ret[t] /= "ok")
        => message_callbacks_ = EmptyMap

\* the application's subscribe() has stored its callback and has not
\* returned yet, or has returned success
Registered(t) ==
    /\ op[t] = "subscribe"
    /\ \/ pc[t] = "sub_issue"
       \/ pc[t] = "returning" /\ ret[t] = "ok"

\* C40: the handler registry holds at most one handler per pattern: a
\* subscribe with a pattern that is already registered replaces the earlier
\* handler, so once the application's subscribe(pattern, h) has stored h the
\* registry holds h under pattern, whatever it held before, and a matching
\* message enters only the handler the registry holds for a pattern, once
\* per pattern.
C40_ResubscribeReplacesHandler ==
    /\ Registered(MainThread)
       => /\ arg_topic[MainThread] \in DOMAIN message_callbacks_
          /\ message_callbacks_[arg_topic[MainThread]] = arg_callback[MainThread]
    /\ \A i \in 1..Len(invoked) :
          /\ invoked[i].pattern \in DOMAIN message_callbacks_
          /\ invoked[i].handler = message_callbacks_[invoked[i].pattern]
          /\ InvokedCount(invoked[i].pattern) = 1

\* the second subscribe of a pattern has returned success and a message
\* matching the pattern has entered the handler it registered
C40_Witness ==
    /\ calls = 2
    /\ Registered(MainThread)
    /\ pc[MainThread] = "returning"
    /\ Cardinality(DOMAIN message_callbacks_) = 1
    /\ \E i \in 1..Len(invoked) :
          /\ invoked[i].pattern = arg_topic[MainThread]
          /\ invoked[i].handler = arg_callback[MainThread]

(***************************************************************************)
(* Properties of the device registry                                       *)
(***************************************************************************)
\* C37: for every device identifier x that has a mapping in the registry,
\* loaded by initialize() or added or updated by addDevice(),
\* getMqttDeviceId(getDbIdentifier(x)) = x.
C37_RegistryRoundTrip ==
    \A x \in DOMAIN mqtt_to_db_map_ : getMqttDeviceId(getDbIdentifier(x)) = x

(***************************************************************************)
(* Properties of the NUT client                                            *)
(***************************************************************************)
\* C35: between the operations of NutClient (each step of the model is one
\* locked section) the session handle ups_conn_ is non-null exactly when
\* connected_ is true, and connect() never allocates a handle over a live
\* one: the only UPSCONN_t object alive is the one ups_conn_ points to.
C35_HandleIffConnected ==
    /\ ups_conn_ /= 0 <=> nut_connected_
    /\ nut_live = IF ups_conn_ /= 0 THEN 1 ELSE 0

\* the client is connected again after a failed connect
C35_Witness ==
    /\ w_pc = "none"
    /\ nut_connected_
    /\ ups_conn_ /= 0
    /\ has_value(backoff_sec)

(***************************************************************************)
(* Properties of the order of the bridge's publications                    *)
(***************************************************************************)
\* the worker leaves the discovery block of pollAndPublish in this step
LeavesDiscoveryBlock == w_pc = "discovery" /\ w_pc' /= "discovery"

\* the discovery payload was published in full and the broker connection
\* has not dropped since
DiscoveryCurrent == has_value(disc_epoch) /\ Deref(disc_epoch) = drops

WorkerTouchesDiscoveryFlag ==
    /\ w_pc \in {"discovery", "publish_all"}
    /\ w_pc' /= w_pc

\* C33: every read or write of the bridge's shared state, the
\* discovery-published flag and the last-poll timestamp, happens while the
\* thread holds mutex_, the lock of that state.
C33_BridgeStateAccessedUnderLock ==
    [][/\ WorkerTouchesDiscoveryFlag => bridge_mutex_ = "worker"
       /\ last_poll_time_' /= last_poll_time_ => bridge_mutex_ = "worker"]_vars

(***************************************************************************)
(* Properties of the lock order                                            *)
(***************************************************************************)
\* the position of each mutex in the order the code takes them in
LockRank(m) ==
    CASE m = "connection_mutex_" -> 0
      [] m = "callbacks_mutex_" -> 1
      [] m = "data_mutex_" -> 2
      [] m = "db_connection_mutex_" -> 3
      [] m = "cache_mutex_" -> 4
      [] m = "status_mutex_" -> 5

\* thread t is in a lock() that has not returned
Blocked(t) ==
    /\ l_todo[t] /= <<>>
    /\ Head(l_todo[t])[1] = "lock"
    /\ lk[Head(l_todo[t])[2]] /= "none"
    /\ ~(lk[Head(l_todo[t])[2]] = t /\ Recursive(Head(l_todo[t])[2]))

\* the thread that thread t waits for: the owner of the mutex it asks for,
\* or the saver thread it joins
WaitsFor(t) ==
    IF Blocked(t) THEN {lk[Head(l_todo[t])[2]]}
    ELSE IF l_todo[t] /= <<>> /\ Head(l_todo[t])[1] = "join" /\ l_todo["saver"] /= <<>>
    THEN {"saver"}
    ELSE {}

RECURSIVE WaitChain(_, _)
\* the threads reached from the set S by following WaitsFor n times
WaitChain(S, n) ==
    IF n = 0 THEN S ELSE WaitChain(UNION {WaitsFor(t) : t \in S}, n - 1)

\* thread t waits, directly or through other threads, for itself
WaitsForever(t) ==
    \E n \in 1..Cardinality(LockThreads) : t \in WaitChain({t}, n)

\* C34: the locks are taken in one order by every thread, a thread asks for
\* a mutex only while every mutex it holds comes before it in that order,
\* and no interleaving of dispatch to the collector's handler, scheduled
\* flush, shutdown flush, publish, subscribe and status queries reaches a
\* state where threads wait for each other for ever.
C34_LockOrderAcyclic ==
    /\ \A t \in LockThreads :
          (l_todo[t] /= <<>> /\ Head(l_todo[t])[1] = "lock")
             => \A m \in LockNames :
                   (lk[m] = t /\ m /= Head(l_todo[t])[2])
                      => LockRank(m) < LockRank(Head(l_todo[t])[2])
    /\ \A t \in LockThreads : ~WaitsForever(t)

\* the callback thread holds the registry lock and waits for the data lock,
\* which the saver holds while it is inside the storage; a subscribe waits
\* for the registry lock
C34_Witness ==
    /\ lk["callbacks_mutex_"] = "cb"
    /\ Blocked("cb")
    /\ lk["data_mutex_"] = "saver"
    /\ lk["db_connection_mutex_"] = "saver"
    /\ Blocked("app")
    /\ WaitsFor("app") = {"cb"}

(***************************************************************************)
(* Properties of shutdown                                                  *)
(***************************************************************************)
\* C31: once stop() has cleared a loop's stop flag, the bridge's poll loop
\* and the collector's save loop each end, whatever they were doing, and
\* stop() returns after it has joined the thread.
C31_CancellationTerminates ==
    /\ (b_pc = "joining") ~> (b_pc = "stopped" /\ w_pc = "done")
    /\ (c_pc = "stop_join") ~> (c_pc = "idle" /\ s_pc = "none" /\ ~running_)

\* stop() of the bridge has returned after a pass of the loop that polled
\* and published, and the worker thread has ended
C31_Witness ==
    /\ b_pc = "stopped"
    /\ w_pc = "done"
    /\ ~bridge_running_
    /\ cycle_end = "published"
    /\ last_poll_time_ = 1

====
